---- MODULE Spec2Model ----
(***************************************************************************)
(* A model of the pore sampler of the pore-structure visualisation code:   *)
(* app/config.py (MaterialConfig, the global CONFIG, set_configuration),   *)
(* the dimension-override wrappers that replace                            *)
(* MaterialConfig._load_default_config, and app/utils.py                   *)
(* generate_realistic_pores, one action per statement group.               *)
(* Further specifications model calls of the sampler from several threads, *)
(* a client of app/config.py, and one run of main.py or of a wrapper.      *)
(*                                                                         *)
(* Reals are modelled as exact rationals <<numerator, denominator>> in     *)
(* lowest terms with a positive denominator; floating-point rounding is    *)
(* not modelled.  <<0, 0>> stands for an IEEE NaN.  Random draws are       *)
(* nondeterministic choices from small sets of values of the draw's range. *)
(***************************************************************************)
EXTENDS Integers, Sequences, FiniteSets

(***************************************************************************)
(* Bounds of the model.                                                    *)
(***************************************************************************)
\* longest diameter / intrusion array enumerated
MaxLen == 3
\* largest n_pores enumerated with every dataset
MaxSampled == 3
\* largest n_pores enumerated (with the one-entry dataset)
MaxPores == 7
\* most rows of the dataset enumerated for sort_by_diameter
MaxRows == 3
\* most pores enumerated in one call of a renderer
MaxRendered == 3

(***************************************************************************)
(* Rational arithmetic (the code's float arithmetic, exact).               *)
(***************************************************************************)
Abs(i) == IF i < 0 THEN -i ELSE i

RECURSIVE GCD(_, _)
GCD(a, b) == IF b = 0 THEN a ELSE GCD(b, a % b)

\* the rational n/d (d # 0) in lowest terms
R(n, d) ==
    LET s == IF d < 0 THEN -1 ELSE 1
        g == GCD(Abs(n), Abs(d))
    IN  <<(s * n) \div g, (s * d) \div g>>

RAdd(a, b) == R(a[1] * b[2] + b[1] * a[2], a[2] * b[2])
RSub(a, b) == R(a[1] * b[2] - b[1] * a[2], a[2] * b[2])
RMul(a, b) == R(a[1] * b[1], a[2] * b[2])
RDiv(a, b) == R(a[1] * b[2], a[2] * b[1])
RNeg(a) == <<-a[1], a[2]>>
RLe(a, b) == a[1] * b[2] <= b[1] * a[2]
RLt(a, b) == a[1] * b[2] < b[1] * a[2]
RMin(a, b) == IF RLe(a, b) THEN a ELSE b
RMax(a, b) == IF RLe(a, b) THEN b ELSE a
RAbs(a) == <<Abs(a[1]), a[2]>>
Zero == <<0, 1>>
One == <<1, 1>>
\* Python's int(): truncation toward zero
Trunc(a) == IF a[1] >= 0 THEN a[1] \div a[2] ELSE -((-a[1]) \div a[2])

RECURSIVE SeqMin(_), SeqMax(_), SeqSum(_)
\* np.min / np.max / np.sum of a non-empty array of rationals
SeqMin(s) == IF Len(s) = 1 THEN s[1] ELSE RMin(s[1], SeqMin(Tail(s)))
SeqMax(s) == IF Len(s) = 1 THEN s[1] ELSE RMax(s[1], SeqMax(Tail(s)))
\* np.sum of an array of numbers (0 for the empty array)
SeqSum(s) == IF s = <<>> THEN 0 ELSE s[1] + SeqSum(Tail(s))

(***************************************************************************)
(* app/config.py: MaterialConfig.  A configuration object is a record of   *)
(* the attributes the sampler and the convenience getters read; "unset"    *)
(* is an attribute that was never assigned.                                *)
(***************************************************************************)
Unset == "unset"

\* the attributes of a MaterialConfig before __init__ assigns any
NoAttributes ==
    [config_name |-> Unset, enable_advanced_analysis |-> Unset,
     board_length_mm |-> Unset, board_width_mm |-> Unset,
     board_thickness_mm |-> Unset,
     length_scale |-> Unset, width_scale |-> Unset, thickness_scale |-> Unset,
     n_pores_individual |-> Unset,
     pore_scale_factor |-> Unset,
     min_pore_radius |-> Unset, max_pore_radius |-> Unset,
     edge_margin_factor |-> Unset, z_margin_factor |-> Unset,
     diagonal_pore_ratio |-> Unset, jitter_strength |-> Unset,
     z_jitter_factor |-> Unset,
     edge_position_factor |-> Unset, corner_position_factor |-> Unset,
     x_limits |-> Unset, y_limits |-> Unset, z_limits |-> Unset,
     n_pores_comparative |-> Unset, n_pores_density |-> Unset,
     n_pores_matrix |-> Unset, n_pores_hybrid |-> Unset,
     micropore_color |-> Unset, mesopore_color |-> Unset,
     macropore_color |-> Unset,
     attributes |-> {}]

DEFAULT_MICROPORE_COLOR == "#FF1493"
DEFAULT_MESOPORE_COLOR == "#FFFF00"
DEFAULT_MACROPORE_COLOR == "#00FFFF"

\* the limits (-a, a) of one axis
Limits(a) == <<RNeg(a), a>>

\* the attributes MaterialConfig.__init__ assigns itself
InitAssigns ==
    {"config_name", "enable_advanced_analysis", "macropore_color",
     "matrix_fill_color", "mesopore_color", "micropore_color"}

\* the attributes both _load_default_config and _load_small_specimen_config
\* assign, of those the parameter getters read
SharedAssigns ==
    {"base_particles_hybrid_combined", "base_particles_hybrid_main",
     "board_length_mm", "board_thickness_mm", "board_width_mm",
     "color_intensity_base", "color_intensity_variation",
     "corner_position_factor", "default_x_bounds", "default_y_bounds",
     "default_z_bounds", "diagonal_pore_ratio", "edge_margin_factor",
     "edge_position_factor", "jitter_strength", "length_scale",
     "max_pore_radius", "min_pore_radius", "n_pores_comparative",
     "n_pores_density", "n_pores_hybrid", "n_pores_individual",
     "n_pores_matrix", "particle_base_size",
     "particle_size_variation", "pore_color_intensity_base",
     "pore_color_intensity_variation", "thickness_scale",
     "width_scale", "x_limits", "y_limits", "z_jitter_factor",
     "z_limits", "z_margin_factor"}

\* the attributes only _load_default_config assigns, of those the
\* parameter getters read
MatrixAssigns ==
    {"matrix_base_particle_size", "matrix_base_particles",
     "matrix_batch_size", "matrix_color_intensity_base",
     "matrix_color_intensity_variation", "matrix_fill_x_bounds",
     "matrix_fill_y_bounds", "matrix_fill_z_bounds",
     "matrix_length_norm", "matrix_particle_alpha",
     "matrix_particle_size_variation", "matrix_width_norm"}

\* MaterialConfig._load_default_config as config.py defines it
original_load_default_config(self) ==
    [self EXCEPT
        !.board_length_mm = R(160, 1), !.board_width_mm = R(160, 1),
        !.board_thickness_mm = R(40, 1),
        !.length_scale = R(2, 1), !.width_scale = R(2, 1),
        !.thickness_scale = R(1, 2),
        !.n_pores_individual = 600,
        !.pore_scale_factor = R(1, 1),
        !.min_pore_radius = R(3, 100), !.max_pore_radius = R(8, 100),
        !.edge_margin_factor = R(95, 100), !.z_margin_factor = R(8, 10),
        !.diagonal_pore_ratio = R(25, 100), !.jitter_strength = R(1, 100),
        !.z_jitter_factor = R(1, 2),
        !.edge_position_factor = R(9, 10),
        !.corner_position_factor = R(85, 100),
        !.x_limits = Limits(R(22, 10)), !.y_limits = Limits(R(22, 10)),
        !.z_limits = Limits(R(7, 10)),
        !.n_pores_comparative = 400, !.n_pores_density = 500,
        !.n_pores_matrix = 800, !.n_pores_hybrid = 800,
        !.attributes = self.attributes \cup SharedAssigns \cup MatrixAssigns]

\* run_dimension_override.py: the replacement of _load_default_config
custom_40x40x160_config(self) ==
    [original_load_default_config(self) EXCEPT
        !.board_length_mm = R(40, 1), !.board_width_mm = R(40, 1),
        !.board_thickness_mm = R(160, 1),
        !.length_scale = R(1, 2), !.width_scale = R(1, 2),
        !.thickness_scale = R(2, 1),
        !.x_limits = Limits(R(7, 10)), !.y_limits = Limits(R(7, 10)),
        !.z_limits = Limits(R(22, 10)),
        !.n_pores_individual = 200, !.n_pores_comparative = 150,
        !.n_pores_density = 150, !.n_pores_matrix = 300,
        !.n_pores_hybrid = 300]

\* run_dimension_100.py: the replacement of _load_default_config;
\* int(600 * (100*100*100) / (160*160*40)) = 585
custom_100x100x100_config(self) ==
    LET volume_ratio == R(100 * 100 * 100, 160 * 160 * 40)
    IN  [original_load_default_config(self) EXCEPT
            !.board_length_mm = R(100, 1), !.board_width_mm = R(100, 1),
            !.board_thickness_mm = R(100, 1),
            !.length_scale = R(5, 4), !.width_scale = R(5, 4),
            !.thickness_scale = R(5, 4),
            !.x_limits = Limits(R(15, 10)), !.y_limits = Limits(R(15, 10)),
            !.z_limits = Limits(R(15, 10)),
            !.n_pores_individual = Trunc(RMul(R(600, 1), volume_ratio)),
            !.n_pores_comparative = Trunc(RMul(R(400, 1), volume_ratio)),
            !.n_pores_density = Trunc(RMul(R(500, 1), volume_ratio)),
            !.n_pores_matrix = Trunc(RMul(R(800, 1), volume_ratio)),
            !.n_pores_hybrid = Trunc(RMul(R(800, 1), volume_ratio)),
            !.min_pore_radius = R(4, 100), !.max_pore_radius = R(1, 10)]

\* run_dimension_100_advanced2.py: the replacement of _load_default_config
custom_100x100x100_advanced2_config(self) ==
    LET volume_ratio == R(100 * 100 * 100, 160 * 160 * 40)
    IN  [original_load_default_config(self) EXCEPT
            !.board_length_mm = R(100, 1), !.board_width_mm = R(100, 1),
            !.board_thickness_mm = R(100, 1),
            !.length_scale = R(5, 4), !.width_scale = R(5, 4),
            !.thickness_scale = R(5, 4),
            !.x_limits = Limits(R(15, 10)), !.y_limits = Limits(R(15, 10)),
            !.z_limits = Limits(R(15, 10)),
            !.n_pores_individual = Trunc(RMul(R(600, 1), volume_ratio)),
            !.n_pores_comparative = Trunc(RMul(R(400, 1), volume_ratio)),
            !.n_pores_density = Trunc(RMul(R(500, 1), volume_ratio)),
            !.n_pores_matrix = Trunc(RMul(R(800, 1), volume_ratio)),
            !.n_pores_hybrid = Trunc(RMul(R(800, 1), volume_ratio)),
            !.micropore_color = "#FF1493", !.mesopore_color = "#FFFF00",
            !.macropore_color = "#00FFFF",
            !.enable_advanced_analysis = TRUE]

\* run_dimension_160x160x40_advanced4.py: the replacement of
\* _load_default_config
custom_160x160x40_advanced4_config(self) ==
    [original_load_default_config(self) EXCEPT
        !.board_length_mm = R(160, 1), !.board_width_mm = R(160, 1),
        !.board_thickness_mm = R(40, 1),
        !.length_scale = R(2, 1), !.width_scale = R(2, 1),
        !.thickness_scale = R(1, 2),
        !.x_limits = Limits(R(22, 10)), !.y_limits = Limits(R(22, 10)),
        !.z_limits = Limits(R(6, 10)),
        !.n_pores_individual = 600, !.n_pores_comparative = 400,
        !.n_pores_density = 500, !.n_pores_matrix = 800,
        !.n_pores_hybrid = 800,
        !.micropore_color = "#FF1493", !.mesopore_color = "#FFFF00",
        !.macropore_color = "#00FFFF",
        !.enable_advanced_analysis = TRUE]

\* MaterialConfig._load_small_specimen_config.  equivalent_side =
\* 10/sqrt(pi)*2 = 11.2838 is irrational; it is taken as 11.2 (scale_factor
\* 0.07), which keeps every derived attribute rational:
\* length_scale = 2.0*0.07, jitter_strength = 0.03*0.07,
\* n_pores_individual = max(50, int(600*0.07^3)) = 50.
load_small_specimen_config(self) ==
    LET specimen_thickness_mm == R(10, 1)
        equivalent_side == R(112, 10)
        scale_factor == RDiv(equivalent_side, R(160, 1))
        volume_ratio == RMul(scale_factor, RMul(scale_factor, scale_factor))
        n_ind == Trunc(RMul(R(600, 1), volume_ratio))
        boundary_scale == RMul(scale_factor, R(11, 10))
        at_least(floor, base) ==
            LET n == Trunc(RMul(R(base, 1), volume_ratio))
            IN  IF n > floor THEN n ELSE floor
    IN  [self EXCEPT
            !.board_length_mm = equivalent_side,
            !.board_width_mm = equivalent_side,
            !.board_thickness_mm = specimen_thickness_mm,
            !.length_scale = RMul(R(2, 1), scale_factor),
            !.width_scale = RMul(R(2, 1), scale_factor),
            !.thickness_scale = RMul(R(1, 2), RDiv(specimen_thickness_mm, R(40, 1))),
            !.n_pores_individual = IF n_ind > 50 THEN n_ind ELSE 50,
            !.pore_scale_factor = R(2, 1),
            !.min_pore_radius = R(1, 100), !.max_pore_radius = R(4, 10),
            !.edge_margin_factor = R(95, 100), !.z_margin_factor = R(8, 10),
            !.diagonal_pore_ratio = R(25, 100),
            !.jitter_strength = RMul(R(3, 100), scale_factor),
            !.z_jitter_factor = R(1, 2),
            !.edge_position_factor = R(9, 10),
            !.corner_position_factor = R(85, 100),
            !.x_limits = Limits(RMul(R(22, 10), boundary_scale)),
            !.y_limits = Limits(RMul(R(22, 10), boundary_scale)),
            !.z_limits = Limits(RMul(R(7, 10),
                                     RDiv(specimen_thickness_mm, R(40, 1)))),
            !.n_pores_comparative = at_least(30, 400),
            !.n_pores_density = at_least(40, 500),
            !.n_pores_matrix = at_least(60, 800),
            !.n_pores_hybrid = at_least(60, 800),
            !.attributes = self.attributes \cup SharedAssigns]

\* the functions MaterialConfig._load_default_config is bound to when the
\* sampler is called on its own
Loaders == {"original", "custom_40x40x160", "custom_100x100x100"}

\* the replacements the wrappers with an advanced-analysis loop install
AdvancedLoaders ==
    {"custom_100x100x100_advanced2", "custom_160x160x40_advanced4"}

\* the call, had it reached the function config.py defines whatever the
\* binding
load_default_config_unpatched(loader, self) ==
    original_load_default_config(self)

\* the call self._load_default_config() under the binding `loader`
load_default_config(loader, self) ==
    CASE loader = "original" -> original_load_default_config(self)
      [] loader = "custom_40x40x160" -> custom_40x40x160_config(self)
      [] loader = "custom_100x100x100" -> custom_100x100x100_config(self)
      [] loader = "custom_100x100x100_advanced2" ->
            custom_100x100x100_advanced2_config(self)
      [] loader = "custom_160x160x40_advanced4" ->
            custom_160x160x40_advanced4_config(self)

ConfigNames == {"default", "small_specimen"}

\* MaterialConfig.__init__ and _load_configuration, for a known name
MaterialConfig(loader, config_name) ==
    LET self == [NoAttributes EXCEPT !.config_name = config_name,
                                     !.micropore_color = DEFAULT_MICROPORE_COLOR,
                                     !.mesopore_color = DEFAULT_MESOPORE_COLOR,
                                     !.macropore_color = DEFAULT_MACROPORE_COLOR,
                                     !.enable_advanced_analysis = FALSE,
                                     !.attributes = InitAssigns]
    IN  IF config_name = "default"
        THEN load_default_config(loader, self)
        ELSE load_small_specimen_config(self)

\* MaterialConfig.get_positioning_parameters
get_positioning_parameters(self) ==
    [edge_margin_factor |-> self.edge_margin_factor,
     z_margin_factor |-> self.z_margin_factor,
     diagonal_pore_ratio |-> self.diagonal_pore_ratio,
     jitter_strength |-> self.jitter_strength,
     z_jitter_factor |-> self.z_jitter_factor,
     edge_position_factor |-> self.edge_position_factor,
     corner_position_factor |-> self.corner_position_factor]

\* MaterialConfig.set_advanced_analysis
set_advanced_analysis(self, enable) ==
    [self EXCEPT !.enable_advanced_analysis = enable]

\* MaterialConfig.set_pore_colors; "" is an argument left at None
set_pore_colors(self, micropore, mesopore, macropore) ==
    [self EXCEPT
        !.micropore_color = IF micropore # "" THEN micropore ELSE @,
        !.mesopore_color = IF mesopore # "" THEN mesopore ELSE @,
        !.macropore_color = IF macropore # "" THEN macropore ELSE @]

\* MaterialConfig.get_pore_colors
get_pore_colors(self) ==
    [micropore_color |-> self.micropore_color,
     mesopore_color |-> self.mesopore_color,
     macropore_color |-> self.macropore_color]

\* the parameter getters of MaterialConfig
ParameterGetters ==
    {"get_matrix_parameters", "get_normalized_bounds", "get_particle_counts",
     "get_positioning_parameters", "get_coordinate_bounds",
     "get_particle_size_parameters", "get_advanced_analysis_params",
     "get_summary"}

\* the attributes of self a getter reads without a default
GetterReads(getter) ==
    CASE getter = "get_matrix_parameters" -> MatrixAssigns
      [] getter = "get_normalized_bounds" ->
            {"matrix_fill_x_bounds", "matrix_fill_y_bounds",
             "matrix_fill_z_bounds", "matrix_length_norm",
             "matrix_width_norm"}
      [] getter = "get_particle_counts" ->
            {"base_particles_hybrid_combined", "base_particles_hybrid_main",
             "n_pores_comparative", "n_pores_density", "n_pores_hybrid",
             "n_pores_individual", "n_pores_matrix"}
      [] getter = "get_positioning_parameters" ->
            {"corner_position_factor", "diagonal_pore_ratio",
             "edge_margin_factor", "edge_position_factor", "jitter_strength",
             "z_jitter_factor", "z_margin_factor"}
      [] getter = "get_coordinate_bounds" ->
            {"default_x_bounds", "default_y_bounds", "default_z_bounds"}
      [] getter = "get_particle_size_parameters" ->
            {"color_intensity_base", "color_intensity_variation",
             "particle_base_size", "particle_size_variation",
             "pore_color_intensity_base", "pore_color_intensity_variation"}
      [] getter = "get_advanced_analysis_params" ->
            {"max_pore_radius", "min_pore_radius"}
      [] getter = "get_summary" ->
            {"board_length_mm", "board_thickness_mm", "board_width_mm",
             "config_name", "length_scale", "n_pores_comparative",
             "n_pores_density", "n_pores_hybrid", "n_pores_individual",
             "n_pores_matrix", "thickness_scale", "width_scale", "x_limits",
             "y_limits", "z_limits"}

\* how the call self.<getter>() ends: reading an attribute that was never
\* assigned raises AttributeError
GetterOutcome(self, getter) ==
    IF GetterReads(getter) \subseteq self.attributes
    THEN "returned"
    ELSE "AttributeError"

(***************************************************************************)
(* numpy, as app/utils.py uses it.                                         *)
(***************************************************************************)
\* an IEEE NaN, written as the quotient 0/0 that produces it
NaN == <<0, 0>>

\* NormIntrusion falling back to equal weights when the sum is zero
NormIntrusionUniform(iv) ==
    LET total == SeqSum(iv)
    IN  [i \in 1..Len(iv) |->
            IF total = 0 THEN R(1, Len(iv)) ELSE R(iv[i], total)]

\* intrusion_values / np.sum(intrusion_values): element-wise division of
\* non-negative numbers; 0/0 is NaN (a warning, no exception)
NormIntrusion(iv) ==
    LET total == SeqSum(iv)
    IN  [i \in 1..Len(iv) |-> IF total = 0 THEN NaN ELSE R(iv[i], total)]

\* p holds a NaN
HasNaN(p) == \E i \in 1..Len(p) : p[i] = NaN

RECURSIVE ProbSum(_)
\* the sum of a NaN-free probability array
ProbSum(p) == IF p = <<>> THEN Zero ELSE RAdd(p[1], ProbSum(Tail(p)))

\* ChoiceRaises validating nothing when no samples are requested
ChoiceRaisesUnlessNoSamples(pop_size, size, p) ==
    IF size = 0 THEN FALSE
    ELSE IF pop_size <= 0 THEN TRUE
    ELSE IF Len(p) # pop_size THEN TRUE
    ELSE IF HasNaN(p) THEN TRUE
    ELSE IF \E i \in 1..Len(p) : RLt(p[i], Zero) THEN TRUE
    ELSE ProbSum(p) # One

\* ChoiceRaises rejecting only a p longer than the population
ChoiceRaisesLongP(pop_size, size, p) ==
    IF pop_size <= 0 /\ size # 0 THEN TRUE
    ELSE IF Len(p) > pop_size THEN TRUE
    ELSE IF pop_size = 0 THEN TRUE
    ELSE IF HasNaN(p) THEN TRUE
    ELSE IF \E i \in 1..Len(p) : RLt(p[i], Zero) THEN TRUE
    ELSE ProbSum(p) # One

\* np.random.choice(pop_size, size=size, p=p) raises instead of sampling:
\* an empty population with samples requested, p of another length, NaN in
\* p, a negative probability, probabilities not summing to 1.  With an
\* empty population, no samples and an empty p, the sum check reads p[0]
\* of a zero-length buffer and, should that pass, cdf[-1] raises: every
\* outcome there is an exception.
ChoiceRaises(pop_size, size, p) ==
    IF pop_size <= 0 /\ size # 0 THEN TRUE
    ELSE IF Len(p) # pop_size THEN TRUE
    ELSE IF pop_size = 0 THEN TRUE
    ELSE IF HasNaN(p) THEN TRUE
    ELSE IF \E i \in 1..Len(p) : RLt(p[i], Zero) THEN TRUE
    ELSE ProbSum(p) # One

\* ChoiceResults drawing every index, whatever its probability
ChoiceResultsAnyIndex(pop_size, size, p) ==
    [1..size -> 1..Len(p)]

\* the index arrays (1-based here) np.random.choice can return: any
\* sequence of `size` positions of p of non-zero probability (found by a
\* search in p's cumulative sums)
ChoiceResults(pop_size, size, p) ==
    [1..size -> {i \in 1..Len(p) : RLt(Zero, p[i])}]

\* ScaledRadii without the subtraction of the smallest sampled radius
ScaledRadiiNoOffset(config, sel) ==
    LET selected_radii ==
            [i \in 1..Len(sel) |-> RDiv(RDiv(R(sel[i], 1), R(1000, 1)), R(2, 1))]
        min_radius == config.min_pore_radius
        max_radius == config.max_pore_radius
        lo == SeqMin(selected_radii)
        hi == SeqMax(selected_radii)
        scaled ==
            IF hi # lo
            THEN [i \in 1..Len(sel) |->
                    RAdd(min_radius,
                         RDiv(RMul(RSub(max_radius, min_radius), selected_radii[i]),
                              RSub(hi, lo)))]
            ELSE [i \in 1..Len(sel) |->
                    RMul(One, RDiv(RAdd(min_radius, max_radius), R(2, 1)))]
    IN  [i \in 1..Len(sel) |-> RMul(scaled[i], config.pore_scale_factor)]

\* ScaledRadii giving the minimum radius when all sampled radii coincide
ScaledRadiiDegenerateMin(config, sel) ==
    LET selected_radii ==
            [i \in 1..Len(sel) |-> RDiv(RDiv(R(sel[i], 1), R(1000, 1)), R(2, 1))]
        min_radius == config.min_pore_radius
        max_radius == config.max_pore_radius
        lo == SeqMin(selected_radii)
        hi == SeqMax(selected_radii)
        scaled ==
            IF hi # lo
            THEN [i \in 1..Len(sel) |->
                    RAdd(min_radius,
                         RDiv(RMul(RSub(max_radius, min_radius),
                                   RSub(selected_radii[i], lo)),
                              RSub(hi, lo)))]
            ELSE [i \in 1..Len(sel) |-> RMul(One, min_radius)]
    IN  [i \in 1..Len(sel) |-> RMul(scaled[i], config.pore_scale_factor)]

\* ScaledRadii rescaling against the radii in reverse order
ScaledRadiiReversed(config, sel) ==
    LET selected_radii ==
            [i \in 1..Len(sel) |->
                RDiv(RDiv(R(sel[Len(sel) + 1 - i], 1), R(1000, 1)), R(2, 1))]
        min_radius == config.min_pore_radius
        max_radius == config.max_pore_radius
        lo == SeqMin(selected_radii)
        hi == SeqMax(selected_radii)
        scaled ==
            IF hi # lo
            THEN [i \in 1..Len(sel) |->
                    RAdd(min_radius,
                         RDiv(RMul(RSub(max_radius, min_radius),
                                   RSub(selected_radii[i], lo)),
                              RSub(hi, lo)))]
            ELSE [i \in 1..Len(sel) |->
                    RMul(One, RDiv(RAdd(min_radius, max_radius), R(2, 1)))]
    IN  [i \in 1..Len(sel) |-> RMul(scaled[i], config.pore_scale_factor)]

\* scaled_radii of lines 144-157: the sampled diameters converted to
\* radii in micrometres, rescaled into [min_radius, max_radius] relative to
\* this draw's extremes (the midpoint when they coincide), times
\* pore_scale_factor.  sel is non-empty.
ScaledRadii(config, sel) ==
    LET selected_radii ==
            [i \in 1..Len(sel) |-> RDiv(RDiv(R(sel[i], 1), R(1000, 1)), R(2, 1))]
        min_radius == config.min_pore_radius
        max_radius == config.max_pore_radius
        lo == SeqMin(selected_radii)
        hi == SeqMax(selected_radii)
        scaled ==
            IF hi # lo
            THEN [i \in 1..Len(sel) |->
                    RAdd(min_radius,
                         RDiv(RMul(RSub(max_radius, min_radius),
                                   RSub(selected_radii[i], lo)),
                              RSub(hi, lo)))]
            ELSE [i \in 1..Len(sel) |->
                    RMul(One, RDiv(RAdd(min_radius, max_radius), R(2, 1)))]
    IN  [i \in 1..Len(sel) |-> RMul(scaled[i], config.pore_scale_factor)]

\* max(min(v, bound), -bound)
Clamp(v, bound) == RMax(RMin(v, bound), RNeg(bound))

\* np.random.uniform(-bound, bound) for the draw u in [0, 1)
Uniform(bound, u) == RAdd(RNeg(bound), RMul(RSub(bound, RNeg(bound)), u))

\* add_pore_at without the clamp to the bounds
add_pore_at_unclamped(pp, xb, yb, zb, x, y, z, n) ==
    LET jitter == pp.jitter_strength
        jx == RMul(jitter, n[1])
        jy == RMul(jitter, n[2])
        jz == RMul(RMul(jitter, pp.z_jitter_factor), n[3])
    IN  <<RAdd(x, jx), RAdd(y, jy), RAdd(z, jz)>>

\* add_pore_at(x, y, z): np.random.normal(0, s) is s times a standard
\* normal draw (n[1], n[2], n[3] here); the sum is clamped to the bounds
add_pore_at(pp, xb, yb, zb, x, y, z, n) ==
    LET jitter == pp.jitter_strength
        jx == RMul(jitter, n[1])
        jy == RMul(jitter, n[2])
        jz == RMul(RMul(jitter, pp.z_jitter_factor), n[3])
    IN  <<Clamp(RAdd(x, jx), xb), Clamp(RAdd(y, jy), yb), Clamp(RAdd(z, jz), zb)>>

\* np.random.normal raises ValueError on a negative scale
NormalRaises(pp) ==
    IF RLt(pp.jitter_strength, Zero) THEN TRUE
    ELSE RLt(RMul(pp.jitter_strength, pp.z_jitter_factor), Zero)

(***************************************************************************)
(* Inputs: the datasets and pore counts a call is made with, and the       *)
(* values the random draws take.                                           *)
(***************************************************************************)
\* diameter arrays of length L as main() passes them, sorted by
\* sort_by_diameter: L distinct values, or one value L times
DiameterArrays(L) == {[i \in 1..L |-> 10 * i], [i \in 1..L |-> 10]}

\* intrusion arrays of length L: each weight zero or positive
IntrusionArrays(L) == [1..L -> {0, 1}]

\* every pore count up to MaxSampled with every pair of arrays, of equal
\* length or not
DatasetCalls ==
    {[diameters |-> d, intrusion_values |-> iv, n_pores |-> n] :
        d \in UNION {DiameterArrays(L) : L \in 0..MaxLen},
        iv \in UNION {IntrusionArrays(L) : L \in 0..MaxLen},
        n \in 0..MaxSampled}

\* every pore count up to MaxPores with the one-entry dataset
PlacementCalls ==
    {[diameters |-> <<10>>, intrusion_values |-> <<1>>, n_pores |-> n] :
        n \in 0..MaxPores}

\* the calls explored under a configuration: the datasets decide the radii
\* and are varied under the shipped positioning attributes; the
\* positioning attributes decide the placement, which does not read the
\* sampled diameters, and are varied with the one-entry dataset
Calls(shipped) ==
    IF shipped THEN DatasetCalls \cup PlacementCalls ELSE PlacementCalls

\* values assigned to the positioning attributes of CONFIG besides the
\* shipped ones: a diagonal fraction above 0.45, an extreme and a negative
\* jitter strength, an extreme z jitter factor
DiagonalRatios == {R(8, 10)}
JitterStrengths == {R(10, 1), R(-1, 1)}
ZJitterFactors == {R(100, 1)}

\* top stratum: e = np.random.exponential(0.3) >= 0, ux, uy the uniform
\* draws of x and y
TopDraws ==
    {[e |-> R(1, 4), ux |-> Zero, uy |-> R(3, 4)],
     [e |-> R(5, 1), ux |-> R(1, 2), uy |-> R(1, 4)]}

\* diagonal stratum: t = np.random.beta(1.5, 1.0), the two signs, the
\* three standard normal draws of the jitter
DiagDraws ==
    {[t |-> Zero, sx |-> 1, sy |-> -1, n |-> <<R(3, 1), R(-3, 1), R(3, 1)>>],
     [t |-> R(1, 2), sx |-> -1, sy |-> 1, n |-> <<R(-1, 1), Zero, R(-3, 1)>>]}

\* edge stratum: the sub-style, the uniform draw u of the free coordinate,
\* the np.random.random() draws r, the signs s, the jitter draws n
EdgeDraws ==
    LET a == [u |-> Zero, r |-> <<R(1, 2), Zero, Zero>>, s |-> <<1, -1>>,
              n |-> <<R(3, 1), R(3, 1), R(3, 1)>>]
        b == [u |-> R(3, 4), r |-> <<Zero, R(1, 2), R(1, 2)>>, s |-> <<-1, 1>>,
              n |-> <<Zero, R(-3, 1), R(-1, 1)>>]
    IN  {[edge |-> v[1], u |-> v[2].u, r |-> v[2].r, s |-> v[2].s, n |-> v[2].n] :
            v \in {<<"top-x", a>>, <<"top-y", b>>, <<"corner", a>>, <<"corner", b>>}}

\* remaining stratum: the three uniform draws
RemainingDraws ==
    {[ux |-> Zero, uy |-> R(1, 2), uz |-> R(3, 4)],
     [ux |-> R(3, 4), uy |-> Zero, uz |-> Zero]}

(***************************************************************************)
(* numpy's global generator.  Every np.random function draws from one      *)
(* process-wide generator; its state is the seed it was given and the      *)
(* number of values drawn since.  One call of an np.random function holds  *)
(* the generator's lock, so it is one step.                                *)
(***************************************************************************)
\* seeds np.random.seed is called with
Seeds == {1, 2}

\* threads that call the sampler
Threads == {1, 2}

\* calls of the sampler in one behaviour
MaxCalls == 3

\* the generator after np.random.seed(s)
Seeded(s) == [seed |-> s, pos |-> 0]

\* the next value in [0, 1) of the generator in state g: a fixed function
\* of the seed and the position, in quarters
RandomSample(g) == R((g.seed + g.pos * (g.pos + g.seed)) % 4, 4)

\* the generator after n more values
Advance(g, n) == [g EXCEPT !.pos = @ + n]

RECURSIVE PrefixSum(_, _)
\* cdf[j] of p.cumsum()
PrefixSum(p, j) == IF j = 0 THEN Zero ELSE RAdd(PrefixSum(p, j - 1), p[j])

\* cdf.searchsorted(u, side='right'), 1-based: one more than the number of
\* cumulative sums that are <= u
ChoiceIndex(p, u) ==
    1 + Cardinality({j \in 1..Len(p) : RLe(PrefixSum(p, j), u)})

\* np.random.choice(len(p), size=size, p=p) from the generator in state g
ChoiceFrom(g, size, p) ==
    [i \in 1..size |-> ChoiceIndex(p, RandomSample(Advance(g, i - 1)))]

\* the bounds of lines 164-166 under a configuration
XBound(config) == RMul(config.length_scale, config.edge_margin_factor)
YBound(config) == RMul(config.width_scale, config.edge_margin_factor)
ZBound(config) == RMul(config.thickness_scale, config.z_margin_factor)

\* the bound of the axis (1, 2, 3) a coordinate belongs to
AxisBound(config, axis) ==
    IF axis = 1 THEN XBound(config)
    ELSE IF axis = 2 THEN YBound(config) ELSE ZBound(config)

\* the datasets and pore counts the threads call the sampler with.  With at
\* most two pores and the shipped diagonal_pore_ratio, int(n_pores * 0.4),
\* int(n_pores * 0.25) and int(n_pores * 0.15) are 0: every pore is placed
\* by the loop of lines 242-246.
ThreadCalls ==
    {[diameters |-> <<10, 20>>, intrusion_values |-> iv, n_pores |-> n] :
        iv \in {<<1, 1>>, <<1, 3>>}, n \in {1, 2}}

\* a thread that is not in a call
IdleThread ==
    [pc |-> "idle", diameters |-> <<>>, intrusion_values |-> <<>>,
     n_pores |-> 0, start |-> Seeded(1), overlapped |-> FALSE,
     selected_diameters |-> <<>>, scaled_radii |-> <<>>,
     pore_positions |-> <<>>, coords |-> <<>>]

(***************************************************************************)
(* State.                                                                  *)
(***************************************************************************)
VARIABLES
    load_default,        \* the function bound to MaterialConfig._load_default_config
    CONFIG,              \* app.config.CONFIG, the object get_config() returns
    pc,                  \* position of the call of generate_realistic_pores
    diameters,           \* its arguments
    intrusion_values,
    n_pores,
    selected_diameters,  \* its locals
    scaled_radii,
    positioning_params,
    x_bound,
    y_bound,
    z_bound,
    pore_positions,
    k,                   \* iterations done of the current for loop
    remaining,
    raised,              \* the exception that ended the call, or "none"
    rng,                 \* the state of numpy's global generator np.random
    thread,              \* per thread, its call of generate_realistic_pores
    returned,            \* the calls that returned, in order of return
    last_call,           \* the last two operations on the configuration
    getter_outcome,      \* how the last parameter getter ended
    script,              \* the program that is run
    argv,                \* its command-line options
    run_pc,              \* its position
    imported_CONFIG,     \* the object the script's own name CONFIG is bound to
    advanced_steps,      \* times main() entered its advanced-analysis step
    rendered_colors,     \* pore colours create_advanced_pore_analysis read
    sorting,             \* a call of sort_by_diameter and a second one on its result
    rendering,           \* a call of a renderer: its inputs and what it has drawn
    loop                 \* a wrapper's loop over the samples, with its alarm

\* no parameter getter was called yet
NoGetter == [getter |-> "none", config_name |-> "none", outcome |-> "none"]

\* a name CONFIG that `from app.config import CONFIG` has not bound yet;
\* once bound, it is either the object app.config.CONFIG still is
\* (current) or the object it was at the import
Unbound == [bound |-> FALSE, current |-> FALSE, object |-> NoAttributes]

\* no call of sort_by_diameter yet
NotSorting ==
    [pc |-> "idle", d_arr |-> <<>>, v_arr |-> <<>>, first |-> <<<<>>, <<>>>>,
     second |-> <<<<>>, <<>>>>]

\* no call of a renderer yet
NotRendering ==
    [pc |-> "idle", renderer |-> "none", sample_name |-> "none",
     scaled_radii |-> <<>>, use_custom_colorbar |-> "unset",
     sample_pore_colors |-> {}, colors |-> <<>>, colormap |-> "none",
     legend |-> "none"]

\* no wrapper has reached its loop over the samples yet
NotLooping ==
    [pc |-> "idle", wrapper |-> "none", i |-> 0, alarm |-> FALSE,
     pending |-> "none", attempted |-> <<>>, outcomes |-> <<>>]

rng_vars == <<rng, thread, returned>>
getter_vars == <<last_call, getter_outcome>>
run_vars == <<script, argv, run_pc, imported_CONFIG, advanced_steps, rendered_colors>>
\* the state outside one call of the sampler and the configuration
analysis_vars == <<sorting, rendering, loop>>
session_vars == <<rng_vars, getter_vars, run_vars, analysis_vars>>

vars ==
    <<load_default, CONFIG, pc, diameters, intrusion_values, n_pores,
      selected_diameters, scaled_radii, positioning_params,
      x_bound, y_bound, z_bound, pore_positions, k, remaining, raised,
      session_vars>>

config_vars == <<load_default, CONFIG>>
arg_vars == <<diameters, intrusion_values, n_pores>>
bound_vars == <<positioning_params, x_bound, y_bound, z_bound>>

Init ==
    /\ load_default = "original"
    /\ CONFIG = MaterialConfig("original", "default")
    /\ pc = "idle"
    /\ diameters = <<>>
    /\ intrusion_values = <<>>
    /\ n_pores = 0
    /\ selected_diameters = <<>>
    /\ scaled_radii = <<>>
    /\ positioning_params = get_positioning_parameters(NoAttributes)
    /\ x_bound = Zero
    /\ y_bound = Zero
    /\ z_bound = Zero
    /\ pore_positions = <<>>
    /\ k = 0
    /\ remaining = 0
    /\ raised = "none"
    /\ rng = Seeded(1)
    /\ thread = [t \in Threads |-> IdleThread]
    /\ returned = <<>>
    /\ last_call = <<"import", "import">>
    /\ getter_outcome = NoGetter
    /\ script = "none"
    /\ argv = {}
    /\ run_pc = "start"
    /\ imported_CONFIG = Unbound
    /\ advanced_steps = 0
    /\ rendered_colors = <<>>
    /\ sorting = NotSorting
    /\ rendering = NotRendering
    /\ loop = NotLooping

call_vars ==
    <<pc, diameters, intrusion_values, n_pores, selected_diameters,
      scaled_radii, positioning_params, x_bound, y_bound, z_bound,
      pore_positions, k, remaining, raised>>

(***************************************************************************)
(* app/config.py and the wrappers: changes of the configuration.           *)
(***************************************************************************)
\* set_configuration(config_name): the global CONFIG is rebound to a new
\* object, built with the current _load_default_config
set_configuration(config_name) ==
    CONFIG' = MaterialConfig(load_default, config_name)

\* get_config()
get_config == CONFIG

\* get_board_dimensions()
get_board_dimensions ==
    <<CONFIG.board_length_mm, CONFIG.board_width_mm, CONFIG.board_thickness_mm>>

\* get_visualization_limits()
get_visualization_limits == <<CONFIG.x_limits, CONFIG.y_limits, CONFIG.z_limits>>

VisualizationTypes == {"individual", "comparative", "density", "matrix", "hybrid"}

\* get_pore_count(visualization_type)
get_pore_count(visualization_type) ==
    CASE visualization_type = "individual" -> CONFIG.n_pores_individual
      [] visualization_type = "comparative" -> CONFIG.n_pores_comparative
      [] visualization_type = "density" -> CONFIG.n_pores_density
      [] visualization_type = "matrix" -> CONFIG.n_pores_matrix
      [] visualization_type = "hybrid" -> CONFIG.n_pores_hybrid
      [] OTHER -> CONFIG.n_pores_individual

\* set_configuration called between two calls of the sampler
SwitchConfiguration(config_name) ==
    /\ pc = "idle"
    /\ set_configuration(config_name)
    /\ UNCHANGED <<session_vars, load_default, call_vars>>

\* the module body of a dimension-override wrapper: it replaces
\* MaterialConfig._load_default_config and, CONFIG having no attribute
\* _config_name, calls set_configuration("default")
run_dimension_wrapper(custom) ==
    /\ pc = "idle"
    /\ load_default = "original"
    /\ load_default' = custom
    /\ CONFIG' = MaterialConfig(custom, "default")
    /\ UNCHANGED <<session_vars, call_vars>>

\* an attribute of the configuration object assigned from outside the class
SetDiagonalPoreRatio(v) ==
    /\ pc = "idle"
    /\ CONFIG' = [CONFIG EXCEPT !.diagonal_pore_ratio = v]
    /\ UNCHANGED <<session_vars, load_default, call_vars>>

SetJitterStrength(v) ==
    /\ pc = "idle"
    /\ CONFIG' = [CONFIG EXCEPT !.jitter_strength = v]
    /\ UNCHANGED <<session_vars, load_default, call_vars>>

SetZJitterFactor(v) ==
    /\ pc = "idle"
    /\ CONFIG' = [CONFIG EXCEPT !.z_jitter_factor = v]
    /\ UNCHANGED <<session_vars, load_default, call_vars>>

(***************************************************************************)
(* app/utils.py: generate_realistic_pores.                                 *)
(***************************************************************************)
\* int(n_pores * 0.4)
top_pores == Trunc(RMul(R(n_pores, 1), R(4, 10)))
\* int(n_pores * positioning_params['diagonal_pore_ratio'])
diag_pores == Trunc(RMul(R(n_pores, 1), positioning_params.diagonal_pore_ratio))
\* int(n_pores * 0.15)
edge_pores == Trunc(RMul(R(n_pores, 1), R(15, 100)))

\* CONFIG's positioning attributes are those its constructor assigned
ShippedPositioning ==
    get_positioning_parameters(CONFIG) =
        get_positioning_parameters(MaterialConfig(load_default, CONFIG.config_name))

\* the call, with n_pores given
Call(c) ==
    /\ pc = "idle"
    /\ pc' = "sample"
    /\ diameters' = c.diameters
    /\ intrusion_values' = c.intrusion_values
    /\ n_pores' = c.n_pores
    /\ UNCHANGED <<session_vars, config_vars, selected_diameters, scaled_radii, bound_vars,
                   pore_positions, k, remaining, raised>>

\* lines 137-141: np.random.choice rejects its arguments
SampleRaises ==
    /\ pc = "sample"
    /\ ChoiceRaises(Len(diameters), n_pores, NormIntrusion(intrusion_values))
    /\ pc' = "raised"
    /\ raised' = "ValueError"
    /\ UNCHANGED <<session_vars, config_vars, arg_vars, selected_diameters, scaled_radii,
                   bound_vars, pore_positions, k, remaining>>

\* lines 137-141: the weighted draw of n_pores diameters
Sample ==
    /\ pc = "sample"
    /\ ~ChoiceRaises(Len(diameters), n_pores, NormIntrusion(intrusion_values))
    /\ \E indices \in ChoiceResults(Len(diameters), n_pores,
                                    NormIntrusion(intrusion_values)) :
          selected_diameters' = [i \in 1..n_pores |-> diameters[indices[i]]]
    /\ pc' = "scale"
    /\ UNCHANGED <<session_vars, config_vars, arg_vars, scaled_radii, bound_vars,
                   pore_positions, k, remaining, raised>>

\* line 149: np.max of an empty array raises ValueError
ScaleRaises ==
    /\ pc = "scale"
    /\ Len(selected_diameters) = 0
    /\ pc' = "raised"
    /\ raised' = "ValueError"
    /\ UNCHANGED <<session_vars, config_vars, arg_vars, selected_diameters, scaled_radii,
                   bound_vars, pore_positions, k, remaining>>

\* Scale with the radii held in the caller's array: the in-place
\* multiplication of line 157 lands in diameters
ScaleInPlaceOnInput ==
    /\ pc = "scale"
    /\ Len(selected_diameters) # 0
    /\ scaled_radii' = ScaledRadii(CONFIG, selected_diameters)
    /\ diameters' = [i \in 1..Len(diameters) |->
                        Trunc(RMul(R(diameters[i], 1), CONFIG.pore_scale_factor))]
    /\ positioning_params' = get_positioning_parameters(CONFIG)
    /\ x_bound' = RMul(CONFIG.length_scale, CONFIG.edge_margin_factor)
    /\ y_bound' = RMul(CONFIG.width_scale, CONFIG.edge_margin_factor)
    /\ z_bound' = RMul(CONFIG.thickness_scale, CONFIG.z_margin_factor)
    /\ pore_positions' = <<>>
    /\ k' = 0
    /\ pc' = "top"
    /\ UNCHANGED <<session_vars, config_vars, intrusion_values, n_pores, selected_diameters,
                   remaining, raised>>

\* lines 144-168: the radii, the positioning parameters and the bounds
Scale ==
    /\ pc = "scale"
    /\ Len(selected_diameters) # 0
    /\ scaled_radii' = ScaledRadii(CONFIG, selected_diameters)
    /\ positioning_params' = get_positioning_parameters(CONFIG)
    /\ x_bound' = RMul(CONFIG.length_scale, CONFIG.edge_margin_factor)
    /\ y_bound' = RMul(CONFIG.width_scale, CONFIG.edge_margin_factor)
    /\ z_bound' = RMul(CONFIG.thickness_scale, CONFIG.z_margin_factor)
    /\ pore_positions' = <<>>
    /\ k' = 0
    /\ pc' = "top"
    /\ UNCHANGED <<session_vars, config_vars, arg_vars, selected_diameters, remaining, raised>>

\* the position of one pore of the upper region without line 190
TopPositionUnclamped(zb, xb, yb, d) ==
    <<Uniform(xb, d.ux), Uniform(yb, d.uy), RMul(zb, RSub(One, d.e))>>

\* the position of one pore of the upper region, lines 189-194
TopPosition(zb, xb, yb, d) ==
    LET z_val == RMul(zb, RSub(One, d.e))
    IN  <<Uniform(xb, d.ux), Uniform(yb, d.uy), RMin(zb, RMax(Zero, z_val))>>

\* one iteration of the loop over the upper region, had it appended
\* add_pore_at(x, y, z_val)
TopPoreJittered ==
    /\ pc = "top"
    /\ k < top_pores
    /\ \E d \in TopDraws :
          LET p == TopPosition(z_bound, x_bound, y_bound, d)
          IN  pore_positions' =
                  Append(pore_positions,
                         add_pore_at(positioning_params, x_bound, y_bound, z_bound,
                                     p[1], p[2], p[3], <<One, One, One>>))
    /\ k' = k + 1
    /\ UNCHANGED <<session_vars, config_vars, arg_vars, selected_diameters, scaled_radii,
                   bound_vars, pc, remaining, raised>>

\* lines 186-196: one iteration of the loop over the upper region
TopPore ==
    /\ pc = "top"
    /\ k < top_pores
    /\ \E d \in TopDraws :
          pore_positions' = Append(pore_positions, TopPosition(z_bound, x_bound, y_bound, d))
    /\ k' = k + 1
    /\ UNCHANGED <<session_vars, config_vars, arg_vars, selected_diameters, scaled_radii,
                   bound_vars, pc, remaining, raised>>

\* the loop over the upper region ends
TopDone ==
    /\ pc = "top"
    /\ k >= top_pores
    /\ pc' = "diag"
    /\ k' = 0
    /\ UNCHANGED <<session_vars, config_vars, arg_vars, selected_diameters, scaled_radii,
                   bound_vars, pore_positions, remaining, raised>>

\* the position of one pore of the diagonal pattern, lines 202-210
DiagPosition(pp, xb, yb, zb, d) ==
    LET edge_factor == pp.edge_position_factor
        x == RMul(RMul(xb, RSub(One, RMul(d.t, edge_factor))), R(d.sx, 1))
        y == RMul(RMul(yb, RSub(One, RMul(d.t, edge_factor))), R(d.sy, 1))
        z == RMul(zb, RSub(One, RMul(d.t, R(1, 2))))
    IN  add_pore_at(pp, xb, yb, zb, x, y, z, d.n)

\* lines 199-210: one iteration of the loop over the diagonal pattern
DiagPore ==
    /\ pc = "diag"
    /\ k < diag_pores
    /\ ~NormalRaises(positioning_params)
    /\ \E d \in DiagDraws :
          pore_positions' =
              Append(pore_positions,
                     DiagPosition(positioning_params, x_bound, y_bound, z_bound, d))
    /\ k' = k + 1
    /\ UNCHANGED <<session_vars, config_vars, arg_vars, selected_diameters, scaled_radii,
                   bound_vars, pc, remaining, raised>>

\* lines 174-178 in a diagonal or an edge iteration: np.random.normal
\* raises on a negative scale
JitterRaises ==
    /\ \/ pc = "diag" /\ k < diag_pores
       \/ pc = "edge" /\ k < edge_pores
    /\ NormalRaises(positioning_params)
    /\ pc' = "raised"
    /\ raised' = "ValueError"
    /\ UNCHANGED <<session_vars, config_vars, arg_vars, selected_diameters, scaled_radii,
                   bound_vars, pore_positions, k, remaining>>

\* the loop over the diagonal pattern ends
DiagDone ==
    /\ pc = "diag"
    /\ k >= diag_pores
    /\ pc' = "edge"
    /\ k' = 0
    /\ UNCHANGED <<session_vars, config_vars, arg_vars, selected_diameters, scaled_radii,
                   bound_vars, pore_positions, remaining, raised>>

\* factor + (1 - factor) * r
Toward(factor, r) == RAdd(factor, RMul(RSub(One, factor), r))

\* the position of one pore along the edges, lines 215-238
EdgePosition(pp, xb, yb, zb, d) ==
    LET edge_factor == pp.edge_position_factor
        corner_factor == pp.corner_position_factor
        top_z == RMul(zb, RAdd(R(8, 10), RMul(R(2, 10), d.r[2])))
        x == CASE d.edge = "top-x" -> Uniform(xb, d.u)
               [] d.edge = "top-y" ->
                    RMul(RMul(xb, Toward(edge_factor, d.r[1])), R(d.s[1], 1))
               [] OTHER ->
                    RMul(RMul(xb, Toward(corner_factor, d.r[1])), R(d.s[1], 1))
        y == CASE d.edge = "top-x" ->
                    RMul(RMul(yb, Toward(edge_factor, d.r[1])), R(d.s[1], 1))
               [] d.edge = "top-y" -> Uniform(yb, d.u)
               [] OTHER ->
                    RMul(RMul(yb, Toward(corner_factor, d.r[2])), R(d.s[2], 1))
        z == CASE d.edge = "top-x" -> top_z
               [] d.edge = "top-y" -> top_z
               [] OTHER -> RMul(zb, Toward(corner_factor, d.r[3]))
    IN  add_pore_at(pp, xb, yb, zb, x, y, z, d.n)

\* lines 213-238: one iteration of the loop over the edges
EdgePore ==
    /\ pc = "edge"
    /\ k < edge_pores
    /\ ~NormalRaises(positioning_params)
    /\ \E d \in EdgeDraws :
          pore_positions' =
              Append(pore_positions,
                     EdgePosition(positioning_params, x_bound, y_bound, z_bound, d))
    /\ k' = k + 1
    /\ UNCHANGED <<session_vars, config_vars, arg_vars, selected_diameters, scaled_radii,
                   bound_vars, pc, remaining, raised>>

\* the loop over the edges ends; line 241
EdgeDone ==
    /\ pc = "edge"
    /\ k >= edge_pores
    /\ remaining' = n_pores - Len(pore_positions)
    /\ pc' = "remaining"
    /\ k' = 0
    /\ UNCHANGED <<session_vars, config_vars, arg_vars, selected_diameters, scaled_radii,
                   bound_vars, pore_positions, raised>>

\* the position of one pore of the rest of the volume, lines 243-245
RemainingPosition(xb, yb, zb, d) ==
    <<Uniform(xb, d.ux), Uniform(yb, d.uy), Uniform(zb, d.uz)>>

\* lines 242-246: one iteration of the loop over the remaining pores
RemainingPore ==
    /\ pc = "remaining"
    /\ k < remaining
    /\ \E d \in RemainingDraws :
          pore_positions' =
              Append(pore_positions, RemainingPosition(x_bound, y_bound, z_bound, d))
    /\ k' = k + 1
    /\ UNCHANGED <<session_vars, config_vars, arg_vars, selected_diameters, scaled_radii,
                   bound_vars, pc, remaining, raised>>

\* lines 248-250: return pore_positions, scaled_radii, selected_diameters
Return ==
    /\ pc = "remaining"
    /\ k >= remaining
    /\ pc' = "done"
    /\ UNCHANGED <<session_vars, config_vars, arg_vars, selected_diameters, scaled_radii,
                   bound_vars, pore_positions, k, remaining, raised>>

Next ==
    \/ \E name \in ConfigNames : SwitchConfiguration(name)
    \/ \E custom \in Loaders \ {"original"} : run_dimension_wrapper(custom)
    \/ \E v \in DiagonalRatios : SetDiagonalPoreRatio(v)
    \/ \E v \in JitterStrengths : SetJitterStrength(v)
    \/ \E v \in ZJitterFactors : SetZJitterFactor(v)
    \/ \E c \in Calls(ShippedPositioning) : Call(c)
    \/ SampleRaises
    \/ Sample
    \/ ScaleRaises
    \/ Scale
    \/ TopPore
    \/ TopDone
    \/ DiagPore
    \/ JitterRaises
    \/ DiagDone
    \/ EdgePore
    \/ EdgeDone
    \/ RemainingPore
    \/ Return

Spec == Init /\ [][Next]_vars

(***************************************************************************)
(* Calls of generate_realistic_pores from several threads, all drawing     *)
(* from the global generator.  A thread's call is the code of app/utils.py *)
(* with its np.random calls as steps; with the pore counts of ThreadCalls  *)
(* these are the np.random.choice of line 140 and the three                *)
(* np.random.uniform of lines 243-245 per pore.                            *)
(***************************************************************************)
ActiveThreads == {t \in Threads : thread[t].pc # "idle"}

\* calls begun so far
CallsStarted == Len(returned) + Cardinality(ActiveThreads)

\* np.random.seed(s), by the caller, while no call is running
np_random_seed(s) ==
    /\ ActiveThreads = {}
    /\ rng # Seeded(s)
    /\ rng' = Seeded(s)
    /\ UNCHANGED <<thread, returned, getter_vars, run_vars, config_vars, call_vars,
                   analysis_vars>>

\* ThreadCall with pore_positions a list that outlives the call: the
\* positions of the thread's last call are still in it
ThreadCallKeepingPositions(t, c) ==
    /\ thread[t].pc = "idle"
    /\ thread' =
          [u \in Threads |->
              IF u = t
              THEN [IdleThread EXCEPT
                       !.pc = "sample",
                       !.diameters = c.diameters,
                       !.intrusion_values = c.intrusion_values,
                       !.n_pores = c.n_pores,
                       !.start = rng,
                       !.overlapped = (ActiveThreads # {}),
                       !.pore_positions =
                           IF returned = <<>> THEN <<>>
                           ELSE returned[Len(returned)].pore_positions]
              ELSE IF thread[u].pc # "idle"
                   THEN [thread[u] EXCEPT !.overlapped = TRUE]
                   ELSE thread[u]]
    /\ UNCHANGED <<rng, returned, getter_vars, run_vars, config_vars, call_vars,
                   analysis_vars>>

\* thread t enters generate_realistic_pores(c.diameters, c.intrusion_values,
\* name, n_pores=c.n_pores); `start` records the generator's state then,
\* `overlapped` whether another call runs during this one
ThreadCall(t, c) ==
    /\ thread[t].pc = "idle"
    /\ thread' =
          [u \in Threads |->
              IF u = t
              THEN [IdleThread EXCEPT
                       !.pc = "sample",
                       !.diameters = c.diameters,
                       !.intrusion_values = c.intrusion_values,
                       !.n_pores = c.n_pores,
                       !.start = rng,
                       !.overlapped = (ActiveThreads # {})]
              ELSE IF thread[u].pc # "idle"
                   THEN [thread[u] EXCEPT !.overlapped = TRUE]
                   ELSE thread[u]]
    /\ UNCHANGED <<rng, returned, getter_vars, run_vars, config_vars, call_vars,
                   analysis_vars>>

\* lines 137-166 in thread t: the weighted draw (one np.random.choice, which
\* takes n_pores values from the generator) and the radii
ThreadSample(t) ==
    LET c == thread[t]
        p == NormIntrusion(c.intrusion_values)
        indices == ChoiceFrom(rng, c.n_pores, p)
        sel == [i \in 1..c.n_pores |-> c.diameters[indices[i]]]
    IN  /\ c.pc = "sample"
        /\ ~ChoiceRaises(Len(c.diameters), c.n_pores, p)
        /\ c.n_pores > 0
        /\ Trunc(RMul(R(c.n_pores, 1), R(4, 10))) = 0
        /\ Trunc(RMul(R(c.n_pores, 1), CONFIG.diagonal_pore_ratio)) = 0
        /\ Trunc(RMul(R(c.n_pores, 1), R(15, 100))) = 0
        /\ rng' = Advance(rng, c.n_pores)
        /\ thread' = [thread EXCEPT
                         ![t].pc = "remaining",
                         ![t].selected_diameters = sel,
                         ![t].scaled_radii = ScaledRadii(CONFIG, sel)]
        /\ UNCHANGED <<returned, getter_vars, run_vars, config_vars, call_vars,
                   analysis_vars>>

\* lines 243-245 in thread t: one np.random.uniform(-bound, bound); the
\* third of a pore completes its position (line 246)
ThreadRemainingDraw(t) ==
    LET c == thread[t]
        coord == Uniform(AxisBound(CONFIG, Len(c.coords) + 1), RandomSample(rng))
    IN  /\ c.pc = "remaining"
        /\ Len(c.pore_positions) < c.n_pores
        /\ rng' = Advance(rng, 1)
        /\ thread' =
              IF Len(c.coords) = 2
              THEN [thread EXCEPT
                       ![t].pore_positions = Append(@, Append(c.coords, coord)),
                       ![t].coords = <<>>]
              ELSE [thread EXCEPT ![t].coords = Append(@, coord)]
        /\ UNCHANGED <<returned, getter_vars, run_vars, config_vars, call_vars,
                   analysis_vars>>

\* lines 248-250 in thread t
ThreadReturn(t) ==
    LET c == thread[t]
    IN  /\ c.pc = "remaining"
        /\ Len(c.pore_positions) >= c.n_pores
        /\ returned' =
              Append(returned,
                     [diameters |-> c.diameters,
                      intrusion_values |-> c.intrusion_values,
                      n_pores |-> c.n_pores,
                      start |-> c.start,
                      overlapped |-> c.overlapped,
                      pore_positions |-> c.pore_positions,
                      scaled_radii |-> c.scaled_radii,
                      selected_diameters |-> c.selected_diameters])
        /\ thread' = [thread EXCEPT ![t] = IdleThread]
        /\ UNCHANGED <<rng, getter_vars, run_vars, config_vars, call_vars,
                   analysis_vars>>

\* one thread calls the sampler MaxCalls times, one call after the other,
\* and the caller seeds the generator between calls as it likes
NextSeeded ==
    \/ \E s \in Seeds : np_random_seed(s)
    \/ \E c \in ThreadCalls : CallsStarted < MaxCalls /\ ThreadCall(1, c)
    \/ ThreadSample(1)
    \/ ThreadRemainingDraw(1)
    \/ ThreadReturn(1)

SpecSeeded == Init /\ [][NextSeeded]_vars

\* the threads call the sampler, once each or one of them twice, their
\* steps interleaved in every order
NextThreads ==
    \/ \E s \in Seeds : np_random_seed(s)
    \/ \E t \in Threads : \E c \in ThreadCalls :
          CallsStarted < Cardinality(Threads) /\ ThreadCall(t, c)
    \/ \E t \in Threads : ThreadSample(t)
    \/ \E t \in Threads : ThreadRemainingDraw(t)
    \/ \E t \in Threads : ThreadReturn(t)

SpecThreads == Init /\ [][NextThreads]_vars

(***************************************************************************)
(* A client of app/config.py: any sequence of set_configuration, of        *)
(* replacements of MaterialConfig._load_default_config, of changes of the  *)
(* object get_config() returns, and of calls of its parameter getters.     *)
(***************************************************************************)
\* last_call after the operation op
Called(op) == <<last_call[2], op>>

client_frame == <<call_vars, rng_vars, run_vars, analysis_vars>>

\* set_configuration(config_name), had it reloaded the object in place
CallSetConfigurationOnOldObject(config_name) ==
    /\ CONFIG' = [MaterialConfig(load_default, config_name) EXCEPT
                    !.enable_advanced_analysis = CONFIG.enable_advanced_analysis,
                    !.micropore_color = CONFIG.micropore_color]
    /\ last_call' = Called(config_name)
    /\ UNCHANGED <<load_default, getter_outcome, client_frame>>

\* set_configuration(config_name)
CallSetConfiguration(config_name) ==
    /\ set_configuration(config_name)
    /\ last_call' = Called(config_name)
    /\ UNCHANGED <<load_default, getter_outcome, client_frame>>

\* MaterialConfig._load_default_config = custom
PatchLoadDefault(custom) ==
    /\ load_default # custom
    /\ load_default' = custom
    /\ last_call' = Called("patch")
    /\ UNCHANGED <<CONFIG, getter_outcome, client_frame>>

\* get_config().set_advanced_analysis(enable)
CallSetAdvancedAnalysis(enable) ==
    /\ CONFIG' = set_advanced_analysis(CONFIG, enable)
    /\ last_call' = Called("set_advanced_analysis")
    /\ UNCHANGED <<load_default, getter_outcome, client_frame>>

\* get_config().set_pore_colors(micropore=color)
CallSetPoreColors(color) ==
    /\ CONFIG' = set_pore_colors(CONFIG, color, "", "")
    /\ last_call' = Called("set_pore_colors")
    /\ UNCHANGED <<load_default, getter_outcome, client_frame>>

\* get_config().board_length_mm = v and get_config().n_pores_individual = n:
\* attributes assigned from outside the class
AssignDimensions(v, n) ==
    /\ CONFIG' = [CONFIG EXCEPT !.board_length_mm = v, !.n_pores_individual = n]
    /\ last_call' = Called("assign")
    /\ UNCHANGED <<load_default, getter_outcome, client_frame>>

\* get_config().<getter>()
CallGetter(getter) ==
    /\ getter_outcome' =
            [getter |-> getter, config_name |-> CONFIG.config_name,
             outcome |-> GetterOutcome(CONFIG, getter)]
    /\ UNCHANGED <<load_default, CONFIG, last_call, client_frame>>

NextConfig ==
    \/ \E name \in ConfigNames : CallSetConfiguration(name)
    \/ \E custom \in Loaders : PatchLoadDefault(custom)
    \/ \E enable \in BOOLEAN : CallSetAdvancedAnalysis(enable)
    \/ CallSetPoreColors("#FF0000")
    \/ AssignDimensions(R(100, 1), 10)
    \/ \E getter \in ParameterGetters : CallGetter(getter)

SpecConfig == Init /\ [][NextConfig]_vars

(***************************************************************************)
(* One run of main.py or of a dimension-override wrapper.  A wrapper       *)
(* imports main (and with it app.config, which builds CONFIG), binds its   *)
(* own name CONFIG to that object, replaces _load_default_config and calls *)
(* main.main().                                                            *)
(***************************************************************************)
Wrappers ==
    {"run_dimension_override", "run_dimension_100",
     "run_dimension_100_advanced2", "run_dimension_160x160x40_advanced4"}

Scripts == {"main"} \cup Wrappers

\* the command-line options enumerated: --advanced-analysis true and
\* --micropore-color "#123456"
Options == {"--advanced-analysis", "--micropore-color"}

\* the function a wrapper assigns to MaterialConfig._load_default_config
LoaderOf(wrapper) ==
    CASE wrapper = "run_dimension_override" -> "custom_40x40x160"
      [] wrapper = "run_dimension_100" -> "custom_100x100x100"
      [] wrapper = "run_dimension_100_advanced2" -> "custom_100x100x100_advanced2"
      [] wrapper = "run_dimension_160x160x40_advanced4" ->
            "custom_160x160x40_advanced4"

\* the wrappers whose module body reloads the configuration and calls
\* CONFIG.set_advanced_analysis(True) before main.main()
ReloadingWrappers ==
    {"run_dimension_override", "run_dimension_100", "run_dimension_100_advanced2"}

\* the wrappers that render the three samples again after main.main()
RenderingWrappers ==
    {"run_dimension_100_advanced2", "run_dimension_160x160x40_advanced4"}

Samples == <<"T1", "T2", "T3">>

\* the colours the rendering wrappers assign before each sample
WrapperColors ==
    [micropore_color |-> "#FF0000", mesopore_color |-> "#00FF00",
     macropore_color |-> "#0000FF"]

\* the object the script's own name CONFIG refers to
WrapperCONFIG ==
    IF imported_CONFIG.current THEN CONFIG ELSE imported_CONFIG.object

\* the script's name CONFIG once app.config.CONFIG is rebound: it keeps
\* the object it was bound to
Rebound ==
    IF imported_CONFIG.current
    THEN [imported_CONFIG EXCEPT !.current = FALSE, !.object = CONFIG]
    ELSE imported_CONFIG

\* a change, to object, of the object the script's name CONFIG refers to
WrapperStore(object) ==
    IF imported_CONFIG.current
    THEN CONFIG' = object /\ UNCHANGED imported_CONFIG
    ELSE imported_CONFIG' = [imported_CONFIG EXCEPT !.object = object]
            /\ UNCHANGED CONFIG

\* create_advanced_pore_analysis for one sample: the colours it takes from
\* get_config().get_pore_colors()
Rendering(by, sample_name) ==
    [by |-> by, sample_name |-> sample_name, colors |-> get_pore_colors(get_config)]

run_frame == <<call_vars, rng_vars, getter_vars, analysis_vars>>

\* python <script>.py <args>: the imports
Launch(sc, args) ==
    /\ run_pc = "start"
    /\ script' = sc
    /\ argv' = args
    /\ imported_CONFIG' =
            IF sc \in Wrappers
            THEN [Unbound EXCEPT !.bound = TRUE, !.current = TRUE]
            ELSE Unbound
    /\ run_pc' = IF sc \in Wrappers THEN "patch" ELSE "main"
    /\ UNCHANGED <<config_vars, advanced_steps, rendered_colors, run_frame>>

\* MaterialConfig._load_default_config = custom_..._config
Patch ==
    /\ run_pc = "patch"
    /\ load_default' = LoaderOf(script)
    /\ run_pc' = IF script \in ReloadingWrappers THEN "reload" ELSE "main"
    /\ UNCHANGED <<CONFIG, script, argv, imported_CONFIG, advanced_steps,
                   rendered_colors, run_frame>>

\* if hasattr(CONFIG, '_config_name'): copy a new object's attributes onto
\* CONFIG; else: set_configuration("default")
Reload ==
    /\ run_pc = "reload"
    /\ IF "_config_name" \in WrapperCONFIG.attributes
       THEN WrapperStore(MaterialConfig(load_default, "default"))
       ELSE set_configuration("default") /\ imported_CONFIG' = Rebound
    /\ run_pc' = "enable"
    /\ UNCHANGED <<load_default, script, argv, advanced_steps, rendered_colors,
                   run_frame>>

\* CONFIG.set_advanced_analysis(True), on the object the wrapper imported
Enable ==
    /\ run_pc = "enable"
    /\ WrapperStore(set_advanced_analysis(WrapperCONFIG, TRUE))
    /\ run_pc' = "main"
    /\ UNCHANGED <<load_default, script, argv, advanced_steps, rendered_colors,
                   run_frame>>

\* main(): set_configuration(CONFIG_TYPE) with CONFIG_TYPE = "default"
MainConfigure ==
    /\ run_pc = "main"
    /\ set_configuration("default")
    /\ imported_CONFIG' = Rebound
    /\ run_pc' = "dataset"
    /\ UNCHANGED <<load_default, script, argv, advanced_steps, rendered_colors,
                   run_frame>>

\* main(): the dataset is missing or empty, main returns
MainReturnsEarly ==
    /\ run_pc = "dataset"
    /\ run_pc' = "no_dataset"
    /\ UNCHANGED <<config_vars, script, argv, imported_CONFIG, advanced_steps,
                   rendered_colors, run_frame>>

\* main(): the dataset is loaded and the six groups of figures are made
MainPipeline ==
    /\ run_pc = "dataset"
    /\ run_pc' = "arguments"
    /\ UNCHANGED <<config_vars, script, argv, imported_CONFIG, advanced_steps,
                   rendered_colors, run_frame>>

\* main(): args = parse_args(); the colours given are set and
\* enable_advanced_analysis is assigned from --advanced-analysis
MainArguments ==
    /\ run_pc = "arguments"
    /\ LET current_config == get_config
           colored ==
               IF "--micropore-color" \in argv
               THEN set_pore_colors(current_config, "#123456", "", "")
               ELSE current_config
           enable_advanced == "--advanced-analysis" \in argv
       IN  CONFIG' = [colored EXCEPT !.enable_advanced_analysis = enable_advanced]
    /\ run_pc' = "advanced"
    /\ UNCHANGED <<load_default, script, argv, imported_CONFIG, advanced_steps,
                   rendered_colors, run_frame>>

\* main(): the advanced-analysis step, three samples rendered
MainAdvancedAnalysis ==
    /\ run_pc = "advanced"
    /\ get_config.enable_advanced_analysis
    /\ advanced_steps' = advanced_steps + 1
    /\ rendered_colors' =
            rendered_colors \o [i \in 1..Len(Samples) |-> Rendering("main", Samples[i])]
    /\ run_pc' = "after_main"
    /\ UNCHANGED <<config_vars, script, argv, imported_CONFIG, run_frame>>

\* main(): the advanced-analysis step is skipped
MainSkipsAdvancedAnalysis ==
    /\ run_pc = "advanced"
    /\ ~get_config.enable_advanced_analysis
    /\ run_pc' = "after_main"
    /\ UNCHANGED <<config_vars, script, argv, imported_CONFIG, advanced_steps,
                   rendered_colors, run_frame>>

\* samples the wrapper's loop has rendered
wrapper_rendered ==
    Cardinality({i \in 1..Len(rendered_colors) : rendered_colors[i].by = "wrapper"})

\* the wrapper's loop: CONFIG.micropore_color = "#FF0000" and the two others
WrapperAssignsColors ==
    /\ run_pc \in {"after_main", "next_sample"}
    /\ script \in RenderingWrappers
    /\ wrapper_rendered < Len(Samples)
    /\ WrapperStore(
            [WrapperCONFIG EXCEPT
                !.micropore_color = WrapperColors.micropore_color,
                !.mesopore_color = WrapperColors.mesopore_color,
                !.macropore_color = WrapperColors.macropore_color])
    /\ run_pc' = "render"
    /\ UNCHANGED <<load_default, script, argv, advanced_steps, rendered_colors,
                   run_frame>>

\* the wrapper's loop: create_advanced_pore_analysis(diam, intr, sample_name,
\* output_file)
WrapperRenders ==
    /\ run_pc = "render"
    /\ rendered_colors' =
            Append(rendered_colors, Rendering("wrapper", Samples[wrapper_rendered + 1]))
    /\ run_pc' = "next_sample"
    /\ UNCHANGED <<config_vars, script, argv, imported_CONFIG, advanced_steps,
                   run_frame>>

\* sys.exit(...), or the end of main.py
Exit ==
    /\ IF run_pc = "no_dataset" THEN TRUE
       ELSE IF run_pc = "after_main" THEN script \notin RenderingWrappers
       ELSE IF run_pc = "next_sample" THEN wrapper_rendered = Len(Samples)
       ELSE FALSE
    /\ run_pc' = "exit"
    /\ UNCHANGED <<config_vars, script, argv, imported_CONFIG, advanced_steps,
                   rendered_colors, run_frame>>

NextRun ==
    \/ \E sc \in Scripts, args \in SUBSET Options : Launch(sc, args)
    \/ Patch
    \/ Reload
    \/ Enable
    \/ MainConfigure
    \/ MainReturnsEarly
    \/ MainPipeline
    \/ MainArguments
    \/ MainAdvancedAnalysis
    \/ MainSkipsAdvancedAnalysis
    \/ WrapperAssignsColors
    \/ WrapperRenders
    \/ Exit

SpecRun == Init /\ [][NextRun]_vars

(***************************************************************************)
(* The loop over the samples T1, T2, T3 that three wrappers run after      *)
(* main.main(): each rendering is guarded by signal.alarm(120), whose      *)
(* handler raises TimeoutError.  SIGALRM is delivered asynchronously: the  *)
(* handler runs between two bytecodes of the main thread, wherever the     *)
(* program stands while the alarm is pending.                              *)
(*   loop.pending is what the finally clause resumes: "none" (the try      *)
(* block completed), "continue", or an exception that propagates.          *)
(***************************************************************************)
LoopingWrappers ==
    {"run_dimension_100_advanced2", "run_dimension_160x160x40_advanced4",
     "run_dimension_100_color0_advanced"}

loop_frame ==
    <<config_vars, call_vars, rng_vars, getter_vars, run_vars, sorting, rendering>>

\* the data is loaded and the for statement is entered
LoopStart(wrapper) ==
    /\ loop.pc = "idle"
    /\ loop' = [loop EXCEPT !.pc = "arm", !.wrapper = wrapper, !.i = 1]
    /\ UNCHANGED loop_frame

\* signal.signal(signal.SIGALRM, timeout_handler); signal.alarm(120); the
\* call of create_advanced_pore_analysis begins
Arm ==
    /\ loop.pc = "arm"
    /\ loop' = [loop EXCEPT !.pc = "render", !.alarm = TRUE,
                            !.attempted = Append(@, Samples[loop.i])]
    /\ UNCHANGED loop_frame

\* create_advanced_pore_analysis returns
RenderReturns ==
    /\ loop.pc = "render"
    /\ loop' = [loop EXCEPT !.pc = "cancel"]
    /\ UNCHANGED loop_frame

\* create_advanced_pore_analysis raises an Exception of its own
RenderRaises ==
    /\ loop.pc = "render"
    /\ loop' = [loop EXCEPT !.pc = "except Exception"]
    /\ UNCHANGED loop_frame

\* the alarm goes off and timeout_handler raises TimeoutError where the
\* program stands: in the try block it is caught by except TimeoutError;
\* in the except Exception clause it leaves the try statement through the
\* finally clause; in the finally clause it leaves the loop at once
AlarmFires ==
    /\ loop.alarm
    /\ loop' = [loop EXCEPT
                    !.alarm = FALSE,
                    !.pc = IF loop.pc \in {"render", "cancel"}
                           THEN "except TimeoutError"
                           ELSE IF loop.pc = "except Exception" THEN "finally"
                           ELSE "aborted",
                    !.pending = IF loop.pc = "except Exception"
                                THEN "TimeoutError" ELSE @]
    /\ UNCHANGED loop_frame

\* signal.alarm(0) at the end of the try block
Cancel ==
    /\ loop.pc = "cancel"
    /\ loop' = [loop EXCEPT !.pc = "finally", !.alarm = FALSE, !.pending = "none"]
    /\ UNCHANGED loop_frame

\* except TimeoutError: print, continue
HandleTimeout ==
    /\ loop.pc = "except TimeoutError"
    /\ loop' = [loop EXCEPT !.pc = "finally", !.pending = "continue",
                            !.outcomes = Append(@, "timed out")]
    /\ UNCHANGED loop_frame

\* except Exception as rendering_error: print, continue
HandleError ==
    /\ loop.pc = "except Exception"
    /\ loop' = [loop EXCEPT !.pc = "finally", !.pending = "continue",
                            !.outcomes = Append(@, "failed")]
    /\ UNCHANGED loop_frame

\* finally: signal.alarm(0); then the exception goes on to the except
\* clause around the loop, or the loop goes on to the next sample
Finally ==
    /\ loop.pc = "finally"
    /\ loop' =
          IF loop.pending = "TimeoutError"
          THEN [loop EXCEPT !.pc = "aborted", !.alarm = FALSE]
          ELSE [loop EXCEPT
                   !.pc = IF loop.i = Len(Samples) THEN "done" ELSE "arm",
                   !.i = @ + 1,
                   !.alarm = FALSE,
                   !.pending = "none",
                   !.outcomes = IF loop.pending = "none" THEN Append(@, "saved") ELSE @]
    /\ UNCHANGED loop_frame

NextLoop ==
    \/ \E wrapper \in LoopingWrappers : LoopStart(wrapper)
    \/ Arm
    \/ RenderReturns
    \/ RenderRaises
    \/ AlarmFires
    \/ Cancel
    \/ HandleTimeout
    \/ HandleError
    \/ Finally

SpecLoop == Init /\ [][NextLoop]_vars

(***************************************************************************)
(* app/data_processor.py: sort_by_diameter, as main() calls it on two      *)
(* columns of the cleaned data frame.                                      *)
(***************************************************************************)
\* the permutations of 1..n
Permutations(n) ==
    {idx \in [1..n -> 1..n] : \A i, j \in 1..n : idx[i] = idx[j] => i = j}

\* np.argsort(d_arr): the default kind is not stable, so the result is
\* any permutation that puts d_arr in ascending order
np_argsort(d_arr) ==
    {idx \in Permutations(Len(d_arr)) :
        \A i \in 1..(Len(d_arr) - 1) : d_arr[idx[i]] <= d_arr[idx[i + 1]]}

\* arr[idx], indexing with an integer array
Take(arr, idx) == [i \in 1..Len(idx) |-> arr[idx[i]]]

\* sort_by_diameter, had it returned v_arr as it is
sort_by_diameter_only(d_arr, v_arr, idx) ==
    <<Take(d_arr, idx), v_arr>>

\* sort_by_diameter(d_arr, v_arr), idx being the value of np.argsort(d_arr)
sort_by_diameter(d_arr, v_arr, idx) ==
    <<Take(d_arr, idx), Take(v_arr, idx)>>

DiameterValues == {1, 2, 3}
IntrusionValues == {1, 2}

\* two columns of one data frame: arrays of one length
Columns ==
    UNION {[1..n -> DiameterValues] \X [1..n -> IntrusionValues] : n \in 0..MaxRows}

sort_frame ==
    <<config_vars, call_vars, rng_vars, getter_vars, run_vars, rendering, loop>>

\* main(): df["diam_T1"].values, df["int_T1"].values
LoadColumns(c) ==
    /\ sorting.pc = "idle"
    /\ sorting' = [sorting EXCEPT !.pc = "loaded", !.d_arr = c[1], !.v_arr = c[2]]
    /\ UNCHANGED sort_frame

\* main(): diam1, intr1 = sort_by_diameter(...)
SortByDiameter ==
    /\ sorting.pc = "loaded"
    /\ \E idx \in np_argsort(sorting.d_arr) :
          sorting' = [sorting EXCEPT
                         !.pc = "sorted",
                         !.first = sort_by_diameter(sorting.d_arr, sorting.v_arr, idx)]
    /\ UNCHANGED sort_frame

\* sort_by_diameter called on what it returned
SortAgain ==
    /\ sorting.pc = "sorted"
    /\ \E idx \in np_argsort(sorting.first[1]) :
          sorting' = [sorting EXCEPT
                         !.pc = "sorted again",
                         !.second = sort_by_diameter(sorting.first[1],
                                                     sorting.first[2], idx)]
    /\ UNCHANGED sort_frame

NextSort ==
    \/ \E c \in Columns : LoadColumns(c)
    \/ SortByDiameter
    \/ SortAgain

SpecSort == Init /\ [][NextSort]_vars

(***************************************************************************)
(* The renderers of pores: create_combined_pores_matrix_visualization of   *)
(* app/hybrid_pore_matrix_modeling.py ("hybrid") and                       *)
(* create_advanced_pore_analysis of app/advanced_pore_analysis.py          *)
(* ("advanced"), from the colours they read to the legend.  The            *)
(* configuration attributes use_custom_colorbar and sample_pore_colors     *)
(* exist only when a wrapper's loader assigned them; a renderer reads them *)
(* behind hasattr.  sample_pore_colors is modelled by the set of its keys, *)
(* the colour of a key being SampleColor.                                  *)
(***************************************************************************)
Renderers == {"hybrid", "advanced"}

\* run_dimension_100_color0_advanced.py: self.sample_pore_colors
SampleColor(sample_name) ==
    CASE sample_name = "T1" -> "#D62728"
      [] sample_name = "T2" -> "#1F77B4"
      [] sample_name = "T3" -> "#FF7F0E"

\* hasattr(current_config, 'sample_pore_colors') and
\* sample_name in current_config.sample_pore_colors
HasSampleColor(call) == call.sample_name \in call.sample_pore_colors

\* hasattr(current_config, 'use_custom_colorbar') and
\* current_config.use_custom_colorbar
CustomColorbar(call) == call.use_custom_colorbar = "True"

\* the three colours of the size classes: those of the configuration, or
\* the colour of the sample three times
ClassColors(call, config) ==
    IF HasSampleColor(call)
    THEN [micropore_color |-> SampleColor(call.sample_name),
          mesopore_color |-> SampleColor(call.sample_name),
          macropore_color |-> SampleColor(call.sample_name)]
    ELSE get_pore_colors(config)

\* the size class of a radius, with < for <=
SizeClassStrict(radius, radii) ==
    LET min_radius == SeqMin(radii)
        radius_range == RSub(SeqMax(radii), min_radius)
    IN  IF RLt(radius, RAdd(min_radius, RMul(radius_range, R(33, 100))))
        THEN "micropore"
        ELSE IF RLt(radius, RAdd(min_radius, RMul(radius_range, R(66, 100))))
        THEN "mesopore"
        ELSE "macropore"

\* the size class of a radius among the radii of the call
SizeClass(radius, radii) ==
    LET min_radius == SeqMin(radii)
        max_radius == SeqMax(radii)
        radius_range == RSub(max_radius, min_radius)
        micropore_max == RAdd(min_radius, RMul(radius_range, R(33, 100)))
        mesopore_max == RAdd(min_radius, RMul(radius_range, R(66, 100)))
    IN  IF RLe(radius, micropore_max) THEN "micropore"
        ELSE IF RLe(radius, mesopore_max) THEN "mesopore"
        ELSE "macropore"

\* the colour of pore i, had the advanced renderer looked at the sample's
\* colour only without a custom colorbar
PoreColorUnlessColorbar(call, config, i) ==
    LET class == SizeClass(call.scaled_radii[i], call.scaled_radii)
        by_size == ClassColors([call EXCEPT !.sample_pore_colors = {}], config)
    IN  IF HasSampleColor(call) /\ ~CustomColorbar(call)
        THEN SampleColor(call.sample_name)
        ELSE IF class = "micropore" THEN by_size.micropore_color
        ELSE IF class = "mesopore" THEN by_size.mesopore_color
        ELSE by_size.macropore_color

\* the colour pore i is drawn in
PoreColor(call, config, i) ==
    LET class == SizeClass(call.scaled_radii[i], call.scaled_radii)
        by_size == ClassColors(call, config)
    IN  IF call.renderer = "advanced" /\ HasSampleColor(call)
        THEN SampleColor(call.sample_name)
        ELSE IF class = "micropore" THEN by_size.micropore_color
        ELSE IF class = "mesopore" THEN by_size.mesopore_color
        ELSE by_size.macropore_color

\* the colormap of the volume colorbar (advanced renderer)
Colormap(call) == IF CustomColorbar(call) THEN "custom_pore_gradient" ELSE "jet"

\* whether the legend of the pore types is added
LegendAdded(call) ==
    IF call.renderer = "advanced"
    THEN ~CustomColorbar(call) /\ ~HasSampleColor(call)
    ELSE ~HasSampleColor(call)

\* radii a call of generate_realistic_pores can return: with the least
\* 0.01 and the largest 1.01, the class limits are 0.34 and 0.67
RadiusValues == {R(1, 100), R(34, 100), R(35, 100), R(67, 100), R(101, 100)}

SampleNames == {"T1", "T2"}

\* the calls enumerated
RenderCalls ==
    {[NotRendering EXCEPT !.pc = "pores", !.renderer = c[1], !.sample_name = c[2],
                          !.use_custom_colorbar = c[3], !.sample_pore_colors = c[4],
                          !.scaled_radii = c[5]] :
        c \in Renderers \X SampleNames \X {"unset", "True", "False"}
                \X {{}, {"T1"}}
                \X UNION {[1..n -> RadiusValues] : n \in 1..MaxRendered}}

render_frame ==
    <<config_vars, call_vars, rng_vars, getter_vars, run_vars, sorting, loop>>

\* the renderer is called and has generated and sorted its pores
RenderCall(call) ==
    /\ rendering.pc = "idle"
    /\ rendering' = call
    /\ UNCHANGED render_frame

\* one iteration of the loop over the pores: ax.plot_surface(..., color=color)
RenderPore ==
    /\ rendering.pc = "pores"
    /\ Len(rendering.colors) < Len(rendering.scaled_radii)
    /\ rendering' =
          [rendering EXCEPT
              !.colors = Append(@, PoreColor(rendering, get_config,
                                             Len(rendering.colors) + 1))]
    /\ UNCHANGED render_frame

\* the loop over the pores ends; the advanced renderer makes its colorbar
RenderColorbar ==
    /\ rendering.pc = "pores"
    /\ Len(rendering.colors) = Len(rendering.scaled_radii)
    /\ rendering' =
          [rendering EXCEPT
              !.pc = "legend",
              !.colormap = IF rendering.renderer = "advanced"
                           THEN Colormap(rendering) ELSE @]
    /\ UNCHANGED render_frame

\* the legend of the pore types, if it is to be added
RenderLegend ==
    /\ rendering.pc = "legend"
    /\ rendering' =
          [rendering EXCEPT
              !.pc = "done",
              !.legend = IF LegendAdded(rendering) THEN "Pore Types" ELSE @]
    /\ UNCHANGED render_frame

NextRender ==
    \/ \E call \in RenderCalls : RenderCall(call)
    \/ RenderPore
    \/ RenderColorbar
    \/ RenderLegend

SpecRender == Init /\ [][NextRender]_vars

(***************************************************************************)
(* Properties of generate_realistic_pores.                                 *)
(***************************************************************************)
\* the call returned its three sequences
Returned == pc = "done"

\* equal-length arrays with a positive intrusion sum
ValidDataset ==
    /\ Len(diameters) = Len(intrusion_values)
    /\ SeqSum(intrusion_values) > 0

\* all sampled diameters are the same value
AllEqual(sel) == \A i, j \in 1..Len(sel) : sel[i] = sel[j]

\* x lies in [-bound, bound]
Within(x, bound) == RLe(RNeg(bound), x) /\ RLe(x, bound)

\* C1: for valid inputs (equal-length arrays, positive intrusion sum,
\* n_pores >= 1) and every diagonal_pore_ratio, the three returned sequences
\* each have length exactly n_pores.
C1_ReturnedLengthsAreNPores ==
    (Returned /\ ValidDataset /\ n_pores >= 1)
        => /\ Len(pore_positions) = n_pores
           /\ Len(scaled_radii) = n_pores
           /\ Len(selected_diameters) = n_pores

\* C2: every returned position, from any stratum and for any jitter
\* strength and z jitter factor, has |x| <= x_bound, |y| <= y_bound and
\* |z| <= z_bound, the bounds being scale times margin factor.
C2_PositionsWithinBounds ==
    Returned =>
        /\ x_bound = RMul(CONFIG.length_scale, CONFIG.edge_margin_factor)
        /\ y_bound = RMul(CONFIG.width_scale, CONFIG.edge_margin_factor)
        /\ z_bound = RMul(CONFIG.thickness_scale, CONFIG.z_margin_factor)
        /\ \A i \in 1..Len(pore_positions) :
              /\ Within(pore_positions[i][1], x_bound)
              /\ Within(pore_positions[i][2], y_bound)
              /\ Within(pore_positions[i][3], z_bound)

\* a call returned pores of all four strata under an extreme jitter
\* strength and z jitter factor, one of them clamped onto the x bound
C2_Witness ==
    /\ Returned
    /\ top_pores > 0 /\ diag_pores > 0 /\ edge_pores > 0 /\ remaining > 0
    /\ CONFIG.jitter_strength = R(10, 1)
    /\ CONFIG.z_jitter_factor = R(100, 1)
    /\ \E i \in (top_pores + 1)..(top_pores + diag_pores) :
          pore_positions[i][1] = x_bound

\* C3 as stated: every returned radius lies in
\* [min_pore_radius, max_pore_radius] of the active configuration.
C3_RadiiWithinConfiguredRange ==
    Returned =>
        \A i \in 1..Len(scaled_radii) :
            /\ RLe(CONFIG.min_pore_radius, scaled_radii[i])
            /\ RLe(scaled_radii[i], CONFIG.max_pore_radius)

\* C3, amended: every returned radius lies in [pore_scale_factor *
\* min_pore_radius, pore_scale_factor * max_pore_radius]; that is
\* [min_pore_radius, max_pore_radius] where pore_scale_factor is 1 (the
\* default configuration and the dimension-override presets).
C3_RadiiWithinScaledRange ==
    Returned =>
        \A i \in 1..Len(scaled_radii) :
            /\ RLe(RMul(CONFIG.pore_scale_factor, CONFIG.min_pore_radius),
                   scaled_radii[i])
            /\ RLe(scaled_radii[i],
                   RMul(CONFIG.pore_scale_factor, CONFIG.max_pore_radius))
            /\ CONFIG.pore_scale_factor = One
                  => /\ RLe(CONFIG.min_pore_radius, scaled_radii[i])
                     /\ RLe(scaled_radii[i], CONFIG.max_pore_radius)

\* a call under small_specimen returned several distinct radii, one above
\* max_pore_radius
C3_Witness ==
    /\ Returned
    /\ CONFIG.config_name = "small_specimen"
    /\ ~AllEqual(selected_diameters)
    /\ \E i \in 1..Len(scaled_radii) :
          RLt(CONFIG.max_pore_radius, scaled_radii[i])

\* (min_pore_radius + max_pore_radius) / 2 of the active configuration
MidRadius == RDiv(RAdd(CONFIG.min_pore_radius, CONFIG.max_pore_radius), R(2, 1))

\* C4 as stated: if all sampled diameters are identical, every returned
\* radius equals (min_pore_radius + max_pore_radius) / 2.
C4_DegenerateRadiusIsMidpoint ==
    (Returned /\ AllEqual(selected_diameters))
        => \A i \in 1..Len(scaled_radii) : scaled_radii[i] = MidRadius

\* C4, amended: if all sampled diameters are identical, every returned
\* radius equals pore_scale_factor * (min_pore_radius + max_pore_radius) / 2,
\* the midpoint itself where pore_scale_factor is 1.
C4_DegenerateRadiusIsScaledMidpoint ==
    (Returned /\ AllEqual(selected_diameters))
        => \A i \in 1..Len(scaled_radii) :
              /\ scaled_radii[i] = RMul(CONFIG.pore_scale_factor, MidRadius)
              /\ CONFIG.pore_scale_factor = One => scaled_radii[i] = MidRadius

\* a call under small_specimen returned several pores of one diameter,
\* sampled from a dataset of several diameters
C4_Witness ==
    /\ Returned
    /\ CONFIG.config_name = "small_specimen"
    /\ Len(selected_diameters) >= 2
    /\ AllEqual(selected_diameters)
    /\ ~AllEqual(diameters)

\* C5: the four stratum sizes are non-negative and sum to n_pores.
C5_StratumSizes ==
    pc \in {"remaining", "done"} =>
        /\ top_pores >= 0 /\ diag_pores >= 0 /\ edge_pores >= 0
        /\ remaining >= 0
        /\ top_pores + diag_pores + edge_pores + remaining = n_pores

\* C6: with intrusion values that sum to zero the call ends in an exception
\* at the sampling step, and no returned pore set holds a NaN.
C6_ZeroSumRaises ==
    /\ (pc # "idle" /\ SeqSum(intrusion_values) = 0)
          => /\ pc \in {"sample", "raised"}
             /\ pc = "raised" => raised = "ValueError"
             /\ pore_positions = <<>> /\ scaled_radii = <<>>
    /\ Returned =>
          /\ \A i \in 1..Len(scaled_radii) : scaled_radii[i] # NaN
          /\ \A i \in 1..Len(pore_positions) :
                \A a \in 1..3 : pore_positions[i][a] # NaN

\* a call with a positive pore count and equal-length arrays whose
\* intrusion values are all zero raised
C6_Witness ==
    /\ pc = "raised"
    /\ n_pores >= 1
    /\ Len(diameters) = Len(intrusion_values)
    /\ Len(intrusion_values) >= 2
    /\ SeqSum(intrusion_values) = 0

\* C7: with n_pores = 0 and a valid dataset the call raises no exception and
\* returns three empty sequences.
C7_ZeroPoresReturnsEmpty ==
    (pc # "idle" /\ n_pores = 0 /\ ValidDataset)
        => /\ pc # "raised"
           /\ Returned => /\ pore_positions = <<>>
                          /\ scaled_radii = <<>>
                          /\ selected_diameters = <<>>

\* C8: with zero-length diameter and intrusion arrays the call ends in an
\* exception at the sampling step for every n_pores >= 0 and returns nothing.
C8_EmptyDatasetRaises ==
    (pc # "idle" /\ Len(diameters) = 0 /\ Len(intrusion_values) = 0)
        => /\ pc \in {"sample", "raised"}
           /\ pore_positions = <<>> /\ scaled_radii = <<>>

\* a call with empty arrays raised, with n_pores = 0
C8_Witness ==
    /\ pc = "raised"
    /\ Len(diameters) = 0 /\ Len(intrusion_values) = 0
    /\ n_pores = 0

\* C9: with arrays of different lengths the call ends in an exception at the
\* sampling step, before any pore position is generated.
C9_MismatchedLengthsRaise ==
    (pc # "idle" /\ Len(diameters) # Len(intrusion_values))
        => /\ pc \in {"sample", "raised"}
           /\ pore_positions = <<>> /\ scaled_radii = <<>>

\* a call with more diameters than intrusion values, both non-empty, the
\* intrusion sum positive, raised
C9_Witness ==
    /\ pc = "raised"
    /\ Len(diameters) > Len(intrusion_values)
    /\ Len(intrusion_values) >= 1
    /\ SeqSum(intrusion_values) > 0
    /\ n_pores >= 1

RECURSIVE IntMin(_), IntMax(_)
\* the smallest and the largest of a non-empty sequence of integers
IntMin(s) ==
    IF Len(s) = 1 THEN s[1]
    ELSE LET m == IntMin(Tail(s)) IN IF s[1] <= m THEN s[1] ELSE m
IntMax(s) ==
    IF Len(s) = 1 THEN s[1]
    ELSE LET m == IntMax(Tail(s)) IN IF s[1] >= m THEN s[1] ELSE m

\* min + (max - min) * (d - dmin) / (dmax - dmin) over the returned
\* diameters, lo and hi the radius range
Rescaled(lo, hi, i) ==
    RAdd(lo,
         RDiv(RMul(RSub(hi, lo),
                   R(selected_diameters[i] - IntMin(selected_diameters), 1)),
              R(IntMax(selected_diameters) - IntMin(selected_diameters), 1)))

\* C10 as stated: when the sampled diameters are not all equal, the i-th
\* radius is min_pore_radius + (max_pore_radius - min_pore_radius) *
\* (r_i - minR) / (maxR - minR) over this call's sample.
C10_LinearRescaling ==
    (Returned /\ ~AllEqual(selected_diameters))
        => \A i \in 1..Len(scaled_radii) :
              scaled_radii[i] =
                  Rescaled(CONFIG.min_pore_radius, CONFIG.max_pore_radius, i)

\* C10, amended: the i-th radius is pore_scale_factor times that value;
\* radii are index-aligned with and non-decreasing in the returned
\* diameters, and the smallest and largest sampled diameters map to
\* pore_scale_factor * min_pore_radius and pore_scale_factor *
\* max_pore_radius.
C10_ScaledLinearRescaling ==
    (Returned /\ ~AllEqual(selected_diameters))
        => /\ Len(scaled_radii) = Len(selected_diameters)
           /\ \A i \in 1..Len(scaled_radii) :
                 /\ scaled_radii[i] =
                       RMul(CONFIG.pore_scale_factor,
                            Rescaled(CONFIG.min_pore_radius,
                                     CONFIG.max_pore_radius, i))
                 /\ selected_diameters[i] = IntMin(selected_diameters)
                       => scaled_radii[i] =
                             RMul(CONFIG.pore_scale_factor, CONFIG.min_pore_radius)
                 /\ selected_diameters[i] = IntMax(selected_diameters)
                       => scaled_radii[i] =
                             RMul(CONFIG.pore_scale_factor, CONFIG.max_pore_radius)
           /\ \A i, j \in 1..Len(scaled_radii) :
                 selected_diameters[i] <= selected_diameters[j]
                     => RLe(scaled_radii[i], scaled_radii[j])

\* a call under small_specimen returned three distinct diameters in
\* decreasing order
C10_Witness ==
    /\ Returned
    /\ CONFIG.config_name = "small_specimen"
    /\ Len(selected_diameters) = 3
    /\ selected_diameters[1] > selected_diameters[2]
    /\ selected_diameters[2] > selected_diameters[3]

\* the diameters of the dataset are pairwise different
DistinctDiameters ==
    \A i, j \in 1..Len(diameters) : diameters[i] = diameters[j] => i = j

\* C11: every returned source diameter is the unmodified value of the input
\* diameters array at an index whose intrusion value is strictly positive.
C11_DiametersFromPositiveWeights ==
    pc \notin {"idle", "sample", "raised"} =>
        /\ Len(selected_diameters) = n_pores
        /\ \A i \in 1..Len(selected_diameters) :
              \E j \in 1..Len(diameters) :
                  /\ intrusion_values[j] > 0
                  /\ selected_diameters[i] = diameters[j]

\* a call returned several pores from a dataset of pairwise different
\* diameters of which one has intrusion value zero and two have not
C11_Witness ==
    /\ Returned
    /\ DistinctDiameters
    /\ Len(selected_diameters) >= 2
    /\ ~AllEqual(selected_diameters)
    /\ \E j \in 1..Len(intrusion_values) : intrusion_values[j] = 0

\* C12: no step of a call changes the caller's diameters and
\* intrusion_values arrays or the configuration object, and the function
\* bound to _load_default_config stays the same.
C12_CallLeavesInputsAndConfig ==
    [][pc # "idle" =>
          /\ diameters' = diameters
          /\ intrusion_values' = intrusion_values
          /\ CONFIG' = CONFIG
          /\ load_default' = load_default]_vars

\* a call under small_specimen, whose scale factor is not 1, returned
\* several radii scaled in place
C12_Witness ==
    /\ Returned
    /\ CONFIG.pore_scale_factor = R(2, 1)
    /\ Len(scaled_radii) >= 2
    /\ ~AllEqual(diameters)

\* two returned calls had the same arguments and found the generator in the
\* same state
SameCall(a, b) ==
    /\ a.diameters = b.diameters
    /\ a.intrusion_values = b.intrusion_values
    /\ a.n_pores = b.n_pores
    /\ a.start = b.start

\* two returned calls returned the same three sequences
SameResult(a, b) ==
    /\ a.pore_positions = b.pore_positions
    /\ a.scaled_radii = b.scaled_radii
    /\ a.selected_diameters = b.selected_diameters

AloneSelected(c) ==
    LET indices == ChoiceFrom(c.start, c.n_pores, NormIntrusion(c.intrusion_values))
    IN  [i \in 1..c.n_pores |-> c.diameters[indices[i]]]
AlonePositions(c) ==
    [i \in 1..c.n_pores |->
        [a \in 1..3 |->
            Uniform(AxisBound(CONFIG, a),
                    RandomSample(Advance(c.start, c.n_pores + 3 * (i - 1) + a - 1)))]]

\* C14: calls on independent samples may be interleaved in any order: each
\* call's result depends only on its own inputs and the random source it
\* started with, and has n_pores pores within the bounds with radii in
\* [min_pore_radius, max_pore_radius].
C14_InterleavedCallsIndependent ==
    \A i \in 1..Len(returned) :
        LET c == returned[i]
        IN  /\ c.selected_diameters = AloneSelected(c)
            /\ c.pore_positions = AlonePositions(c)
            /\ c.scaled_radii = ScaledRadii(CONFIG, AloneSelected(c))
            /\ Len(c.pore_positions) = c.n_pores
            /\ Len(c.scaled_radii) = c.n_pores
            /\ \A n \in 1..Len(c.pore_positions) : \A a \in 1..3 :
                  Within(c.pore_positions[n][a], AxisBound(CONFIG, a))
            /\ \A n \in 1..Len(c.scaled_radii) :
                  /\ RLe(CONFIG.min_pore_radius, c.scaled_radii[n])
                  /\ RLe(c.scaled_radii[n], CONFIG.max_pore_radius)

\* every call that ran with no other call beside it returned what
\* AloneSelected and AlonePositions say (the two agree with the steps)
AloneAgreesWithSteps ==
    \A i \in 1..Len(returned) :
        ~returned[i].overlapped =>
            /\ returned[i].selected_diameters = AloneSelected(returned[i])
            /\ returned[i].pore_positions = AlonePositions(returned[i])

(***************************************************************************)
(* Properties of the configuration system.                                 *)
(***************************************************************************)
\* the operation a client of app/config.py did last
LastCall == last_call[2]

\* the state of the configuration was changed before the last operation:
\* an attribute assigned, or the other configuration selected
ChangedBefore == last_call[1] \in {"assign", "set_pore_colors", "set_advanced_analysis"}

\* C15: after set_configuration(name), name 'default' or 'small_specimen',
\* get_config() is the object MaterialConfig(name) builds, with config_name
\* name and nothing left of earlier changes (advanced analysis off, the
\* default pore colours), and get_board_dimensions(),
\* get_visualization_limits() and get_pore_count() report the values of that
\* configuration: 160 x 160 x 40, limits 2.2 / 2.2 / 0.7 and 600, 400, 500,
\* 800, 800 pores for 'default' with the loader of config.py, thickness 10
\* and 50, 30, 40, 60, 60 pores for 'small_specimen'
C15_SetConfigurationBuildsAfresh ==
    LastCall \in ConfigNames =>
        LET fresh == MaterialConfig(load_default, LastCall)
        IN  /\ get_config = fresh
            /\ get_config.config_name = LastCall
            /\ get_config.enable_advanced_analysis = FALSE
            /\ get_pore_colors(get_config) =
                    [micropore_color |-> "#FF1493", mesopore_color |-> "#FFFF00",
                     macropore_color |-> "#00FFFF"]
            /\ get_board_dimensions =
                    <<fresh.board_length_mm, fresh.board_width_mm,
                      fresh.board_thickness_mm>>
            /\ get_visualization_limits =
                    <<fresh.x_limits, fresh.y_limits, fresh.z_limits>>
            /\ \A type \in VisualizationTypes :
                    get_pore_count(type) > 0
            /\ get_pore_count("individual") = fresh.n_pores_individual
            /\ (LastCall = "default" /\ load_default = "original") =>
                    /\ get_board_dimensions = <<R(160, 1), R(160, 1), R(40, 1)>>
                    /\ get_visualization_limits =
                            <<Limits(R(22, 10)), Limits(R(22, 10)), Limits(R(7, 10))>>
                    /\ <<get_pore_count("individual"), get_pore_count("comparative"),
                          get_pore_count("density"), get_pore_count("matrix"),
                          get_pore_count("hybrid")>> = <<600, 400, 500, 800, 800>>
            /\ LastCall = "small_specimen" =>
                    /\ get_board_dimensions[3] = R(10, 1)
                    /\ <<get_pore_count("individual"), get_pore_count("comparative"),
                          get_pore_count("density"), get_pore_count("matrix"),
                          get_pore_count("hybrid")>> = <<50, 30, 40, 60, 60>>

\* set_configuration('default') right after attributes of the replaced
\* object were assigned, the loader being the one of config.py
C15_Witness ==
    /\ LastCall = "default"
    /\ ChangedBefore
    /\ load_default = "original"
    /\ getter_outcome.outcome = "AttributeError"

\* C16: under 'default' and under 'small_specimen', no parameter getter of
\* MaterialConfig fails on a missing attribute
C16_GettersNeverFail ==
    (getter_outcome.getter \in ParameterGetters
        /\ getter_outcome.config_name \in ConfigNames) =>
        getter_outcome.outcome = "returned"

(***************************************************************************)
(* Properties of a run of a wrapper.                                       *)
(***************************************************************************)
\* C17: in a run of run_dimension_override.py, from the reload that follows
\* the replacement of _load_default_config to the end of the run, main()
\* included, get_config() is a 'default' configuration of 40 x 40 x 160 mm
\* with scales (0.5, 0.5, 2.0) and 200, 150, 150, 300, 300 pores, never the
\* 160 x 160 x 40 one
C17_OverridePresetHoldsThroughMain ==
    (script = "run_dimension_override" /\ run_pc \notin {"patch", "reload"}) =>
        /\ get_config.config_name = "default"
        /\ get_board_dimensions = <<R(40, 1), R(40, 1), R(160, 1)>>
        /\ <<get_config.length_scale, get_config.width_scale,
              get_config.thickness_scale>> = <<R(1, 2), R(1, 2), R(2, 1)>>
        /\ <<get_pore_count("individual"), get_pore_count("comparative"),
              get_pore_count("density"), get_pore_count("matrix"),
              get_pore_count("hybrid")>> = <<200, 150, 150, 300, 300>>
        /\ get_board_dimensions # <<R(160, 1), R(160, 1), R(40, 1)>>

\* main() of run_dimension_override.py has built its own configuration and
\* stands at its advanced-analysis step
C17_Witness ==
    /\ script = "run_dimension_override"
    /\ run_pc = "advanced"
    /\ ~imported_CONFIG.current

\* C19: run_dimension_override.py or run_dimension_100.py run without
\* --advanced-analysis: at main()'s advanced-analysis step get_config() has
\* enable_advanced_analysis = True, and once main() is past it the step was
\* executed
C19_WrappersEnableAdvancedAnalysis ==
    (script \in {"run_dimension_override", "run_dimension_100"}
        /\ "--advanced-analysis" \notin argv) =>
        /\ run_pc = "advanced" => get_config.enable_advanced_analysis
        /\ run_pc = "after_main" => advanced_steps = 1

\* C20: in run_dimension_160x160x40_advanced4.py and
\* run_dimension_100_advanced2.py, the object the wrapper assigns red, green
\* and blue to is the one get_config() returns when the sample is rendered,
\* and every sample the wrapper's loop renders is rendered with red, green
\* and blue
C20_RendererReadsWrapperColors ==
    script \in RenderingWrappers =>
        /\ run_pc = "render" =>
                /\ imported_CONFIG.current
                /\ get_pore_colors(get_config) = WrapperColors
        /\ \A i \in 1..Len(rendered_colors) :
                rendered_colors[i].by = "wrapper" =>
                    rendered_colors[i].colors = WrapperColors

(***************************************************************************)
(* Properties of the strata of generate_realistic_pores.                   *)
(***************************************************************************)
\* pore_positions holds the strata completed so far, in the order top,
\* diagonal, edge/corner, remaining, and k pores of the current one
StrataInOrder ==
    /\ pc = "top" => Len(pore_positions) = k /\ k <= top_pores
    /\ pc = "diag" => Len(pore_positions) = top_pores + k /\ k <= diag_pores
    /\ pc = "edge" =>
            Len(pore_positions) = top_pores + diag_pores + k /\ k <= edge_pores
    /\ pc \in {"remaining", "done"} =>
            Len(pore_positions) = top_pores + diag_pores + edge_pores + k

\* C22: the first trunc(0.4 * n_pores) returned positions are those of the
\* top stratum: 0 <= z <= z_bound, x and y within their bounds; the strata
\* follow each other in the order top, diagonal, edge/corner, remaining
C22_TopStratumFirst ==
    /\ StrataInOrder
    /\ Returned =>
            /\ top_pores = Trunc(RMul(R(n_pores, 1), R(4, 10)))
            /\ Len(pore_positions) >= top_pores
            /\ \A i \in 1..top_pores :
                    /\ RLe(Zero, pore_positions[i][3])
                    /\ RLe(pore_positions[i][3], z_bound)
                    /\ Within(pore_positions[i][1], x_bound)
                    /\ Within(pore_positions[i][2], y_bound)

\* a returned call with all four strata, whose top stratum holds a pore
\* clamped to z = 0 and one below z_bound
C22_Witness ==
    /\ Returned
    /\ top_pores > 1 /\ diag_pores > 0 /\ edge_pores > 0 /\ remaining > 0
    /\ pore_positions[1][3] = Zero
    /\ RLt(Zero, pore_positions[2][3])

\* the standard normal draws that leave a position where it was drawn
NoJitter == <<Zero, Zero, Zero>>

\* C23: of the returned positions, those of the top and of the remaining
\* stratum are the values drawn (the top z clamped to [0, z_bound]), with
\* no jitter added; those of the diagonal and of the edge/corner stratum
\* are add_pore_at of the values drawn: jitter added, then clamped
C23_JitterOnDiagonalAndEdgeOnly ==
    Returned =>
        \A i \in 1..Len(pore_positions) :
            IF i <= top_pores
            THEN pore_positions[i] \in
                    {TopPosition(z_bound, x_bound, y_bound, d) : d \in TopDraws}
            ELSE IF i <= top_pores + diag_pores
            THEN pore_positions[i] \in
                    {DiagPosition(positioning_params, x_bound, y_bound, z_bound, d) :
                        d \in DiagDraws}
            ELSE IF i <= top_pores + diag_pores + edge_pores
            THEN pore_positions[i] \in
                    {EdgePosition(positioning_params, x_bound, y_bound, z_bound, d) :
                        d \in EdgeDraws}
            ELSE pore_positions[i] \in
                    {RemainingPosition(x_bound, y_bound, z_bound, d) :
                        d \in RemainingDraws}

\* a returned call with all four strata in which the jitter moved a
\* diagonal and an edge position away from every value that can be drawn
C23_Witness ==
    /\ Returned
    /\ top_pores > 0 /\ diag_pores > 0 /\ edge_pores > 0 /\ remaining > 0
    /\ \E i \in (top_pores + 1)..(top_pores + diag_pores) :
          pore_positions[i] \notin
              {DiagPosition(positioning_params, x_bound, y_bound, z_bound,
                            [d EXCEPT !.n = NoJitter]) : d \in DiagDraws}
    /\ \E i \in (top_pores + diag_pores + 1)..(top_pores + diag_pores + edge_pores) :
          pore_positions[i] \notin
              {EdgePosition(positioning_params, x_bound, y_bound, z_bound,
                            [d EXCEPT !.n = NoJitter]) : d \in EdgeDraws}

(***************************************************************************)
(* Properties of the wrappers' loop over the samples.                      *)
(***************************************************************************)
\* the loop is over: it ran to its end, or an exception left it
LoopOver == loop.pc \in {"done", "aborted"}

\* no alarm is pending when a sample starts or the loop is over
AlarmCancelledBetweenSamples ==
    (loop.pc = "arm" \/ LoopOver) => ~loop.alarm

\* C21: in the wrappers' loop over T1, T2, T3 no alarm is pending when the
\* next sample starts or the loop is over, whether the rendering returned,
\* timed out or raised; a timeout or a rendering error skips that sample
\* only: the loop ends having attempted T1, T2, T3 in order
C21_AlarmCancelledAndEverySampleAttempted ==
    /\ AlarmCancelledBetweenSamples
    /\ loop.pc # "aborted"
    /\ LoopOver => loop.attempted = Samples

(***************************************************************************)
(* Properties of sort_by_diameter.                                         *)
(***************************************************************************)
\* how many rows of the columns d, v hold the pair p
PairCount(d, v, p) == Cardinality({i \in 1..Len(d) : <<d[i], v[i]>> = p})

NonDecreasing(d) == \A i \in 1..(Len(d) - 1) : d[i] <= d[i + 1]

\* C24: sort_by_diameter(d, v) returns the diameters in non-decreasing
\* order and v permuted by the same permutation: both outputs have the
\* input's length and hold the same (diameter, intrusion) pairs as the
\* input, each as often; sorting the result again leaves the diameters as
\* they are
C24_SortByDiameterPermutesPairs ==
    LET d == sorting.d_arr
        v == sorting.v_arr
        out == sorting.first
        again == sorting.second
    IN  /\ sorting.pc \in {"sorted", "sorted again"} =>
              /\ NonDecreasing(out[1])
              /\ Len(out[1]) = Len(d) /\ Len(out[2]) = Len(v)
              /\ \E idx \in Permutations(Len(d)) :
                    out[1] = Take(d, idx) /\ out[2] = Take(v, idx)
              /\ \A p \in DiameterValues \X IntrusionValues :
                    PairCount(out[1], out[2], p) = PairCount(d, v, p)
        /\ sorting.pc = "sorted again" => again[1] = out[1]

\* unsorted diameters with a tie were sorted, and sorting them again
\* kept the diameters while it exchanged the intrusion values of the tie
C24_Witness ==
    /\ sorting.pc = "sorted again"
    /\ ~NonDecreasing(sorting.d_arr)
    /\ sorting.first[1] # sorting.d_arr
    /\ sorting.second[2] # sorting.first[2]

(***************************************************************************)
(* Properties of the renderers.                                            *)
(***************************************************************************)
\* the pores drawn so far
Drawn == 1..Len(rendering.colors)

\* C25: in the hybrid and the advanced renderer, without a colour of its
\* own for the sample, each pore is drawn in one of the three colours of
\* the configuration: the micropore colour if radius <= min + 0.33 * range,
\* the mesopore colour if radius <= min + 0.66 * range, else the macropore
\* colour, min and range being those of the radii of the call.  The
\* smallest pore is a micropore, the largest a macropore if range > 0, and
\* with equal radii every pore is a micropore
C25_SizeClassColours ==
    (rendering.pc # "idle" /\ ~HasSampleColor(rendering)) =>
        LET radii == rendering.scaled_radii
            least == SeqMin(radii)
            largest == SeqMax(radii)
            range == RSub(largest, least)
            pore_colors == get_pore_colors(get_config)
        IN  \A i \in Drawn :
                /\ rendering.colors[i] =
                      IF RLe(radii[i], RAdd(least, RMul(R(33, 100), range)))
                      THEN pore_colors.micropore_color
                      ELSE IF RLe(radii[i], RAdd(least, RMul(R(66, 100), range)))
                      THEN pore_colors.mesopore_color
                      ELSE pore_colors.macropore_color
                /\ radii[i] = least =>
                      rendering.colors[i] = pore_colors.micropore_color
                /\ (radii[i] = largest /\ RLt(Zero, range)) =>
                      rendering.colors[i] = pore_colors.macropore_color
                /\ range = Zero =>
                      rendering.colors[i] = pore_colors.micropore_color

\* a finished rendering of three pores in two colours, one pore with its
\* radius on the limit of the micropores, and one of equal radii
C25_Witness ==
    /\ rendering.pc = "done"
    /\ ~HasSampleColor(rendering)
    /\ rendering.scaled_radii = <<R(101, 100), R(34, 100), R(1, 100)>>
    /\ rendering.colors = <<"#00FFFF", "#FF1493", "#FF1493">>

\* C26: in create_advanced_pore_analysis, if the configuration holds a
\* colour for the sample, every pore is drawn in that colour, whatever its
\* size and whatever use_custom_colorbar; the legend of the pore types is
\* added if and only if use_custom_colorbar is not enabled and the sample
\* has no colour of its own
C26_SampleColourAndLegendPrecedence ==
    rendering.renderer = "advanced" =>
        /\ rendering.sample_name \in rendering.sample_pore_colors =>
                \A i \in Drawn :
                    rendering.colors[i] = SampleColor(rendering.sample_name)
        /\ rendering.pc = "done" =>
                (rendering.legend = "Pore Types" <=>
                    (rendering.use_custom_colorbar # "True"
                     /\ rendering.sample_name \notin rendering.sample_pore_colors))

\* a finished advanced rendering, with a custom colorbar, of pores of
\* three size classes of a sample that has a colour of its own: no legend
C26_Witness ==
    /\ rendering.pc = "done"
    /\ rendering.renderer = "advanced"
    /\ rendering.use_custom_colorbar = "True"
    /\ rendering.sample_name = "T1"
    /\ rendering.sample_pore_colors = {"T1"}
    /\ rendering.scaled_radii = <<R(1, 100), R(35, 100), R(101, 100)>>
    /\ rendering.colors = <<"#D62728", "#D62728", "#D62728">>
    /\ rendering.legend = "none"

====
